---- MODULE Spec2Model ----
(***************************************************************************)
(* Model of the beads storage/synchronisation core: the SQLite store       *)
(* (storage/sqlite_store.py), the data model and content hash (models.py), *)
(* the JSONL exporter (export.py) and importer (importer.py).              *)
(*                                                                         *)
(* A store is a value (a record of tables); every store method is an       *)
(* operator from a store value to a store value and an error, translated   *)
(* statement by statement.  The actions apply these operators to the       *)
(* working store `store` and to the second store `fresh` used by the       *)
(* export/import round trip.  There is one state machine per scenario:     *)
(* Spec (store operations), SpecReady (work queries over time),            *)
(* SpecRoundTrip (flush, then import into an empty store), SpecImport      *)
(* (imports of a changing log) and SpecChain (a long dependency chain).    *)
(*                                                                         *)
(* Timestamps are modelled at whole-tick granularity as a wall-clock       *)
(* reading `loc` plus a UTC offset `off`; the instant is loc - off.  The   *)
(* store keeps them as RFC3339 text, which SQL compares bytewise.          *)
(***************************************************************************)
EXTENDS Integers, Sequences, FiniteSets, TLC

VARIABLES
    store,      \* the working SQLite store (SQLiteStorage on beads.db)
    fresh,      \* a second store opened on an empty database
    log,        \* content of issues.jsonl: a sequence of parsed JSON lines
    result,     \* outcome of the last store/import/export call
    clock,      \* the wall clock read by now_utc()
    imports,    \* consecutive import_jsonl calls on the current log bytes
    pc,         \* position of the round-trip scenario
    disk,       \* the directory entries of issues.jsonl and issues.jsonl.tmp
    flushers    \* the bd processes that are inside flush_to_jsonl

vars == <<store, fresh, log, result, clock, imports, pc, disk, flushers>>

-----------------------------------------------------------------------------
(* Bounds of the model *)

NumIds == 2        \* issue IDs in play
MaxClock == 2      \* last tick of the wall clock
MaxEvents == 3     \* audit events a store may accumulate
MaxLog == 3        \* lines of a log written by a collaborator
MaxChild == 3      \* child numbers handed out for one parent
MaxMint == 10      \* issues of a store whose IDs are minted
ChainLen == 102    \* issues of the longest dependency chain built

IdName == <<"a", "b", "c", "d">>
IDs == {IdName[i] : i \in 1..NumIds}

-----------------------------------------------------------------------------
(* models.py: constants *)

OPEN == "open"
IN_PROGRESS == "in_progress"
BLOCKED == "blocked"
DEFERRED == "deferred"
CLOSED == "closed"
TOMBSTONE == "tombstone"
PINNED == "pinned"
HOOKED == "hooked"

StatusValid == {OPEN, IN_PROGRESS, BLOCKED, DEFERRED, CLOSED, TOMBSTONE, PINNED, HOOKED}

DepBlocking == {"blocks", "parent-child", "conditional-blocks", "waits-for"}

\* Python None / SQL NULL for text values
None == "<None>"

-----------------------------------------------------------------------------
(* models.py: timestamps *)

\* None for datetime values (closed_at, defer_until, deleted_at)
NoTime == [loc |-> 0, off |-> 0]

\* datetime.now(timezone.utc)
now_utc == [loc |-> clock, off |-> 0]

\* the instant a timezone-aware datetime denotes; Python compares by it
Instant(dt) == dt.loc - dt.off

\* first byte of the text after the seconds field: "+hh:mm", "-hh:mm" or "Z"
\* ('+' = 0x2B < '-' = 0x2D < 'Z' = 0x5A)
SuffixRank(dt) == IF dt.off > 0 THEN 0 ELSE IF dt.off < 0 THEN 1 ELSE 2

\* format_timestamp: isoformat() keeps the datetime's own offset and only
\* rewrites "+00:00" as "Z".  The text is represented by its bytewise sort
\* key: wall-clock reading first, then the offset suffix.
format_timestamp(dt) ==
    IF dt = NoTime THEN <<>>
    ELSE <<dt.loc, SuffixRank(dt), IF dt.off < 0 THEN -dt.off ELSE dt.off>>

\* parse_timestamp(format_timestamp(dt)): fromisoformat restores loc and off
parse_timestamp(s) ==
    IF s = <<>> THEN NoTime
    ELSE [loc |-> s[1],
          off |-> IF s[2] = 0 THEN s[3] ELSE IF s[2] = 1 THEN -s[3] ELSE 0]

\* SQLite's BINARY collation on two non-NULL timestamp texts: s <= t
TextLeq(s, t) ==
    \/ s[1] < t[1]
    \/ s[1] = t[1] /\ s[2] < t[2]
    \/ s[1] = t[1] /\ s[2] = t[2] /\ s[3] <= t[3]

-----------------------------------------------------------------------------
(* models.py: Issue, Dependency *)

\* Issue(): the dataclass defaults (created_at/updated_at are filled by the
\* callers; NoTime stands for "not given").  _deleted and _json belong to
\* the log line an issue is read from: the "_deleted" key, and what the text
\* of the line is ("object": a JSON object, "blank": white space only,
\* "invalid": not JSON, "value": JSON that is no object, as [1, 2] or null).
Issue ==
    [id |-> "", content_hash |-> <<>>, title |-> "", description |-> "",
     design |-> "", acceptance_criteria |-> "", notes |-> "",
     status |-> OPEN, priority |-> 2, issue_type |-> "task",
     assignee |-> "", created_at |-> NoTime, updated_at |-> NoTime,
     closed_at |-> NoTime, close_reason |-> "", defer_until |-> NoTime,
     external_ref |-> None, metadata |-> "", deleted_at |-> NoTime,
     ephemeral |-> FALSE, pinned |-> FALSE,
     labels |-> {}, dependencies |-> <<>>, comments |-> <<>>,
     _deleted |-> FALSE, _json |-> "object"]

Dependency(a, b, t) == [issue_id |-> a, depends_on_id |-> b, type |-> t]

\* Comment(issue_id=..., author=..., text=...); issue_id defaults to ""
Comment(id, author, text) == [issue_id |-> id, author |-> author, text |-> text]

\* Issue.compute_content_hash raises AttributeError when a text field holds
\* None (write_str calls s.encode)
HashRaises(i) == i.assignee = None

\* Issue.compute_content_hash: SHA-256 of the NUL-terminated field stream.
\* The digest is represented by the stream itself (SHA-256 taken as
\* injective); write_str_optional writes nothing for None, as for "".
compute_content_hash(i) ==
    <<i.title, i.description, i.design, i.acceptance_criteria, i.notes,
      i.status, i.priority, i.issue_type, i.assignee,
      IF i.external_ref = None THEN "" ELSE i.external_ref,
      IF i.pinned THEN "pinned" ELSE "", i.metadata>>

\* Issue.to_dict: omit-empty serialisation.  An omitted key is represented
\* by the value from_dict gives it back; metadata "{}" is omitted, and
\* content_hash is never written.
to_dict(i) ==
    [i EXCEPT !.content_hash = <<>>,
              !.metadata = IF @ = "{}" THEN "" ELSE @,
              !.external_ref = IF @ = "" THEN None ELSE @]

\* Issue.from_dict followed by set_defaults
from_dict(d) ==
    [d EXCEPT !.content_hash = <<>>,
              !.status = IF @ = "" THEN OPEN ELSE @,
              !.issue_type = IF @ = "" THEN "task" ELSE @]

\* the one title longer than 500 characters; every other title is short
LongTitle == "long-title"
TitleLength(t) == IF t = LongTitle THEN 501 ELSE IF t = "" THEN 0 ELSE 1

\* IssueType._CORE
IssueTypeValid == {"bug", "feature", "task", "epic", "chore"}

\* Issue.validate: the error message, "" for None.  estimated_minutes is
\* None in every issue of the model, and metadata is "" or "{}".
validate(i) ==
    IF i.title = "" THEN "title is required"
    ELSE IF TitleLength(i.title) > 500 THEN "title must be 500 characters or less"
    ELSE IF i.priority < 0 \/ i.priority > 4 THEN "priority must be between 0 and 4"
    ELSE IF i.status # "" /\ i.status \notin StatusValid THEN "invalid status"
    ELSE IF i.issue_type # "" /\ i.issue_type \notin IssueTypeValid
         THEN "invalid issue type"
    ELSE IF i.status = CLOSED /\ i.closed_at = NoTime
         THEN "closed issues must have closed_at timestamp"
    ELSE IF i.status \notin {CLOSED, TOMBSTONE} /\ i.closed_at # NoTime
         THEN "non-closed issues cannot have closed_at timestamp"
    ELSE IF i.status = TOMBSTONE /\ i.deleted_at = NoTime
         THEN "tombstone issues must have deleted_at timestamp"
    ELSE IF i.status # TOMBSTONE /\ i.deleted_at # NoTime
         THEN "non-tombstone issues cannot have deleted_at timestamp"
    ELSE ""

-----------------------------------------------------------------------------
(* storage/schema.py and storage/sqlite_store.py: the store *)

\* a database right after _init_schema
EmptyStore ==
    [issues |-> <<>>,          \* issues table: id -> row
     dependencies |-> {},      \* dependencies table, PRIMARY KEY (issue_id, depends_on_id)
     labels |-> {},            \* labels table: <<issue_id, label>>
     events |-> <<>>,          \* events table in insertion (id) order
     dirty_issues |-> {},      \* dirty_issues table (issue_id)
     comments |-> <<>>,        \* comments table in insertion (id) order
     child_counters |-> <<>>,  \* child_counters table: parent_id -> last_child
     metadata |-> <<>>]        \* metadata table: key -> value

Ok(st) == [st |-> st, err |-> ""]
Raise(st, e) == [st |-> st, err |-> e]

\* table issues without its CHECK on status and closed_at
RowConstraints_no_closed_check(row) ==
    /\ row.title # None /\ row.status # None /\ row.description # None
    /\ TitleLength(row.title) <= 500
    /\ row.priority >= 0 /\ row.priority <= 4

\* the CHECK and NOT NULL constraints of table issues
RowConstraints(row) ==
    /\ row.title # None /\ row.status # None /\ row.description # None
    /\ TitleLength(row.title) <= 500
    /\ row.priority >= 0 /\ row.priority <= 4
    /\ \/ row.status = CLOSED /\ row.closed_at # <<>>
       \/ row.status = TOMBSTONE
       \/ row.status \notin {CLOSED, TOMBSTONE} /\ row.closed_at = <<>>

\* the parameter tuple of create_issue's INSERT INTO issues
IssueRow(issue, hash) ==
    [content_hash |-> hash, title |-> issue.title,
     description |-> issue.description, design |-> issue.design,
     acceptance_criteria |-> issue.acceptance_criteria, notes |-> issue.notes,
     status |-> issue.status, priority |-> issue.priority,
     issue_type |-> issue.issue_type,
     assignee |-> IF issue.assignee = "" THEN None ELSE issue.assignee,
     created_at |-> format_timestamp(issue.created_at),
     updated_at |-> format_timestamp(issue.updated_at),
     closed_at |-> format_timestamp(issue.closed_at),
     close_reason |-> issue.close_reason,
     defer_until |-> format_timestamp(issue.defer_until),
     external_ref |-> issue.external_ref,
     metadata |-> IF issue.metadata = "" THEN "{}" ELSE issue.metadata,
     deleted_at |-> format_timestamp(issue.deleted_at),
     ephemeral |-> IF issue.ephemeral THEN 1 ELSE 0,
     pinned |-> IF issue.pinned THEN 1 ELSE 0]

\* SQLiteStorage._row_to_issue
_row_to_issue(id, row) ==
    [Issue EXCEPT
        !.id = id, !.content_hash = row.content_hash, !.title = row.title,
        !.description = row.description, !.design = row.design,
        !.acceptance_criteria = row.acceptance_criteria, !.notes = row.notes,
        !.status = IF row.status = "" THEN OPEN ELSE row.status,
        !.priority = row.priority,
        !.issue_type = IF row.issue_type = "" THEN "task" ELSE row.issue_type,
        !.assignee = IF row.assignee = None THEN "" ELSE row.assignee,
        !.created_at = parse_timestamp(row.created_at),
        !.updated_at = parse_timestamp(row.updated_at),
        !.closed_at = parse_timestamp(row.closed_at),
        !.close_reason = row.close_reason,
        !.defer_until = parse_timestamp(row.defer_until),
        !.external_ref = row.external_ref, !.metadata = row.metadata,
        !.deleted_at = parse_timestamp(row.deleted_at),
        !.ephemeral = (row.ephemeral # 0), !.pinned = (row.pinned # 0)]

\* a list holding the elements of a set (rows come back in table order)
RECURSIVE SeqOf(_)
SeqOf(S) == IF S = {} THEN <<>>
            ELSE LET x == CHOOSE y \in S : TRUE IN <<x>> \o SeqOf(S \ {x})

\* SQLiteStorage.get_labels
get_labels(st, id) == {l[2] : l \in {m \in st.labels : m[1] = id}}

\* SQLiteStorage.get_dependency_records
get_dependency_records(st, id) ==
    SeqOf({d \in st.dependencies : d.issue_id = id})

\* SQLiteStorage.get_issue; None is represented by the id not being a row
get_issue(st, id) ==
    [_row_to_issue(id, st.issues[id]) EXCEPT
        !.labels = get_labels(st, id),
        !.dependencies = get_dependency_records(st, id),
        !.comments = SelectSeq(st.comments, LAMBDA c : c.issue_id = id)]

\* SQLiteStorage._record_event; the events table has a foreign key on issues
Event(id, type, old, new, comment) ==
    [issue_id |-> id, event_type |-> type, old_value |-> old,
     new_value |-> new, comment |-> comment]

_record_event(st, ev) == [st EXCEPT !.events = Append(@, ev)]

\* SQLiteStorage.mark_dirty (upsert)
mark_dirty(st, id) == [st EXCEPT !.dirty_issues = @ \cup {id}]

\* INSERT OR IGNORE INTO dependencies: the primary key conflict is ignored
InsertOrIgnoreDep(deps, d) ==
    IF \E e \in deps : e.issue_id = d.issue_id /\ e.depends_on_id = d.depends_on_id
    THEN deps ELSE deps \cup {d}

\* the foreign keys of table dependencies
DepForeignKeys(st, d) ==
    d.issue_id \in DOMAIN st.issues /\ d.depends_on_id \in DOMAIN st.issues

\* create_issue, "Import dependencies": an IntegrityError from the foreign
\* keys is swallowed and the edge skipped; nothing else is checked
RECURSIVE InsertEmbeddedDeps(_, _)
InsertEmbeddedDeps(st, deps) ==
    IF deps = <<>> THEN st
    ELSE LET d == Head(deps)
             st1 == IF DepForeignKeys(st, d)
                    THEN [st EXCEPT !.dependencies = InsertOrIgnoreDep(@, d)]
                    ELSE st
         IN InsertEmbeddedDeps(st1, Tail(deps))

\* create_issue, "Import comments": a plain INSERT for each comment, bound to
\* comment.issue_id or issue.id.  The comments table has a foreign key on
\* issues; the first comment that fails on it raises, and the comments
\* before it stay inserted.
RECURSIVE InsertEmbeddedComments(_, _, _)
InsertEmbeddedComments(st, id, comments) ==
    IF comments = <<>> THEN Ok(st)
    ELSE LET c == [Head(comments) EXCEPT !.issue_id = IF @ = "" THEN id ELSE @]
         IN IF c.issue_id \notin DOMAIN st.issues THEN Raise(st, "IntegrityError")
            ELSE InsertEmbeddedComments([st EXCEPT !.comments = Append(@, c)],
                                        id, Tail(comments))

\* SQLiteStorage.create_issue.  No statement of it is undone when a later
\* one raises: the connection is never rolled back, so the rows written so
\* far stay in its open transaction.
create_issue(st, issue0) ==
    LET hash == compute_content_hash(issue0)
        issue == [issue0 EXCEPT
                     !.created_at = IF @ = NoTime THEN now_utc ELSE @,
                     !.updated_at = IF @ = NoTime THEN now_utc ELSE @]
        row == IssueRow(issue, hash)
    IN IF issue.id \in DOMAIN st.issues \/ ~RowConstraints(row)
       THEN Raise(st, "IntegrityError")
       ELSE LET st1 == [st EXCEPT !.issues =
                          [i \in DOMAIN @ \cup {issue.id} |->
                              IF i = issue.id THEN row ELSE @[i]]]
                st2 == [st1 EXCEPT !.labels =
                          @ \cup {<<issue.id, l>> : l \in issue.labels}]
                st3 == InsertEmbeddedDeps(st2, issue.dependencies)
                r == InsertEmbeddedComments(st3, issue.id, issue.comments)
                st4 == _record_event(r.st, Event(issue.id, "created", None, None, None))
            IN IF r.err # "" THEN r ELSE Ok(mark_dirty(st4, issue.id))

\* update_issue, the value bound to a column
ColumnValue(key, value) ==
    IF key \in {"pinned", "ephemeral"} THEN (IF value THEN 1 ELSE 0)
    ELSE IF key \in {"closed_at", "defer_until"} THEN format_timestamp(value)
    ELSE value

\* SQLiteStorage.update_issue; updates is the patch dict (key -> value)
update_issue(st, id, updates) ==
    IF id \notin DOMAIN st.issues THEN Raise(st, "ValueError")
    ELSE
    LET current == get_issue(st, id)
        \* setattr(current, key, value) for every key of the patch
        patched == [f \in DOMAIN current |->
                       IF f \in DOMAIN updates THEN updates[f] ELSE current[f]]
        row == [f \in DOMAIN st.issues[id] |->
                   IF f = "updated_at" THEN format_timestamp(now_utc)
                   ELSE IF f = "content_hash" THEN compute_content_hash(patched)
                   ELSE IF f \in DOMAIN updates THEN ColumnValue(f, updates[f])
                   ELSE st.issues[id][f]]
    IN IF HashRaises(patched) THEN Raise(st, "AttributeError")
       ELSE IF ~RowConstraints(row) THEN Raise(st, "IntegrityError")
       ELSE LET st1 == [st EXCEPT !.issues[id] = row]
                \* old_status is read from current after the setattr loop
                ev == IF "status" \in DOMAIN updates
                      THEN Event(id, "status_changed", patched.status, updates.status, None)
                      ELSE Event(id, "updated", None, None, None)
            IN Ok(mark_dirty(_record_event(st1, ev), id))

\* SQLiteStorage.close_issue: the UPDATE touches no row when the issue is
\* missing, and the event insert then fails on its foreign key
close_issue(st, id, reason) ==
    IF id \notin DOMAIN st.issues THEN Raise(st, "IntegrityError")
    ELSE LET st1 == [st EXCEPT !.issues[id] =
                       [@ EXCEPT !.status = CLOSED,
                                 !.closed_at = format_timestamp(now_utc),
                                 !.close_reason = reason,
                                 !.updated_at = format_timestamp(now_utc)]]
         IN Ok(mark_dirty(_record_event(st1, Event(id, "closed", None, None, reason)), id))

\* a reopen_issue that leaves close_reason as it is
reopen_issue_keeps_reason(st, id) ==
    IF id \notin DOMAIN st.issues THEN Raise(st, "IntegrityError")
    ELSE LET st1 == [st EXCEPT !.issues[id] =
                       [@ EXCEPT !.status = OPEN, !.closed_at = <<>>,
                                 !.updated_at = format_timestamp(now_utc)]]
         IN Ok(mark_dirty(_record_event(st1, Event(id, "reopened", None, None, None)), id))

\* SQLiteStorage.reopen_issue
reopen_issue(st, id) ==
    IF id \notin DOMAIN st.issues THEN Raise(st, "IntegrityError")
    ELSE LET st1 == [st EXCEPT !.issues[id] =
                       [@ EXCEPT !.status = OPEN, !.closed_at = <<>>,
                                 !.close_reason = "",
                                 !.updated_at = format_timestamp(now_utc)]]
         IN Ok(mark_dirty(_record_event(st1, Event(id, "reopened", None, None, None)), id))

\* the events table without the events of one issue
RECURSIVE SelectEvents(_, _)
SelectEvents(evs, id) ==
    IF evs = <<>> THEN <<>>
    ELSE IF Head(evs).issue_id = id THEN SelectEvents(Tail(evs), id)
    ELSE <<Head(evs)>> \o SelectEvents(Tail(evs), id)

\* a delete_issue whose cascade leaves the comments table alone
delete_issue_keeps_comments(st, id) ==
    Ok([st EXCEPT
          !.issues = [i \in DOMAIN st.issues \ {id} |-> st.issues[i]],
          !.dependencies = {d \in st.dependencies :
                               d.issue_id # id /\ d.depends_on_id # id},
          !.labels = {l \in st.labels : l[1] # id},
          !.events = SelectEvents(st.events, id),
          !.dirty_issues = st.dirty_issues \ {id},
          !.child_counters = [q \in DOMAIN st.child_counters \ {id} |->
                                 st.child_counters[q]]])

\* SQLiteStorage.delete_issue: DELETE FROM issues, with ON DELETE CASCADE on
\* dependencies (both columns), labels, comments, events, dirty_issues and
\* child_counters
delete_issue(st, id) ==
    Ok([st EXCEPT
          !.issues = [i \in DOMAIN st.issues \ {id} |-> st.issues[i]],
          !.dependencies = {d \in st.dependencies :
                               d.issue_id # id /\ d.depends_on_id # id},
          !.labels = {l \in st.labels : l[1] # id},
          !.comments = SelectSeq(st.comments, LAMBDA c : c.issue_id # id),
          !.events = SelectEvents(st.events, id),
          !.dirty_issues = st.dirty_issues \ {id},
          !.child_counters = [q \in DOMAIN st.child_counters \ {id} |->
                                 st.child_counters[q]]])

\* SQLiteStorage.next_child_number, from the branch on the row that the SELECT returned
\* (<<>> for no row, <<last_child>> otherwise) to the return: count is the
\* number returned.  The table has a primary key on parent_id and a foreign
\* key on issues.
next_child_number(st, parent_id, row) ==
    LET next_num == IF row # <<>> THEN row[1] + 1 ELSE 1
        written == [st EXCEPT !.child_counters =
                      [q \in DOMAIN @ \cup {parent_id} |->
                          IF q = parent_id THEN next_num ELSE @[q]]]
    IN IF row # <<>>
       THEN \* the UPDATE touches no row when the counter is gone
            IF parent_id \in DOMAIN st.child_counters
            THEN [st |-> written, err |-> "", count |-> next_num]
            ELSE [st |-> st, err |-> "", count |-> next_num]
       ELSE IF parent_id \in DOMAIN st.child_counters
                \/ parent_id \notin DOMAIN st.issues
            THEN [st |-> st, err |-> "IntegrityError", count |-> 0]
            ELSE [st |-> written, err |-> "", count |-> next_num]

\* the depth bound of the recursive CTE in has_cycle
CycleDepth == 100

\* a variant of the CTE that follows blocking edge types only
RECURSIVE reachable_blocking(_, _, _, _)
reachable_blocking(st, seen, frontier, n) ==
    IF n = 0 \/ frontier = {} THEN seen \cup frontier
    ELSE LET next == {d.depends_on_id : d \in
                         {e \in st.dependencies :
                             e.issue_id \in frontier /\ e.type \in DepBlocking}}
         IN reachable_blocking(st, seen \cup frontier, next \ (seen \cup frontier), n - 1)

\* has_cycle's CTE: the ids in rows of depth 0..n, starting from frontier
RECURSIVE reachable(_, _, _, _)
reachable(st, seen, frontier, n) ==
    IF n = 0 \/ frontier = {} THEN seen \cup frontier
    ELSE LET next == {d.depends_on_id : d \in
                         {e \in st.dependencies : e.issue_id \in frontier}}
         IN reachable(st, seen \cup frontier, next \ (seen \cup frontier), n - 1)

\* SQLiteStorage.has_cycle
has_cycle_one_hop(st, issue_id, depends_on_id) ==
    \/ issue_id = depends_on_id
    \/ issue_id \in reachable(st, {}, {depends_on_id}, 1)
has_cycle(st, issue_id, depends_on_id) ==
    \/ issue_id = depends_on_id
    \/ issue_id \in reachable(st, {}, {depends_on_id}, CycleDepth)

\* SQLiteStorage.add_dependency
add_dependency(st, dep) ==
    IF has_cycle(st, dep.issue_id, dep.depends_on_id) THEN Raise(st, "ValueError")
    ELSE IF ~DepForeignKeys(st, dep) THEN Raise(st, "IntegrityError")
    ELSE LET st1 == [st EXCEPT !.dependencies = InsertOrIgnoreDep(@, dep)]
             st2 == _record_event(st1, Event(dep.issue_id, "dependency_added",
                                             None, dep.depends_on_id, None))
         IN Ok(mark_dirty(mark_dirty(st2, dep.issue_id), dep.depends_on_id))

\* SQLiteStorage.remove_dependency: a statement that fails on a foreign key
\* raises and leaves the earlier statements of the call in the open
\* transaction of the connection
remove_dependency(st, issue_id, depends_on_id) ==
    LET st1 == [st EXCEPT !.dependencies =
                   {d \in @ : ~(d.issue_id = issue_id /\ d.depends_on_id = depends_on_id)}]
    IN IF issue_id \notin DOMAIN st.issues THEN Raise(st1, "IntegrityError")
       ELSE LET st2 == mark_dirty(_record_event(st1, Event(issue_id, "dependency_removed",
                                      depends_on_id, None, None)), issue_id)
            IN IF depends_on_id \notin DOMAIN st.issues THEN Raise(st2, "IntegrityError")
               ELSE Ok(mark_dirty(st2, depends_on_id))

\* SQLiteStorage.add_label: INSERT OR IGNORE with a foreign key on issues
add_label(st, id, label) ==
    IF id \notin DOMAIN st.issues THEN Raise(st, "IntegrityError")
    ELSE LET st1 == [st EXCEPT !.labels = @ \cup {<<id, label>>}]
         IN Ok(mark_dirty(_record_event(st1, Event(id, "label_added", None, label, None)), id))

\* SQLiteStorage.remove_label
remove_label(st, id, label) ==
    IF id \notin DOMAIN st.issues THEN Raise(st, "IntegrityError")
    ELSE LET st1 == [st EXCEPT !.labels = @ \ {<<id, label>>}]
         IN Ok(mark_dirty(_record_event(st1, Event(id, "label_removed", label, None, None)), id))

\* the statuses for which a blocker keeps its dependents blocked
\* (the IN list of get_ready_work and get_blocked_issues)
UnresolvedStatuses == {OPEN, IN_PROGRESS, BLOCKED, DEFERRED, HOOKED}

\* SQLiteStorage.get_ready_work with no filter: the ids selected by the WHERE
get_ready_work(st) ==
    {i \in DOMAIN st.issues :
        /\ st.issues[i].status = OPEN
        /\ st.issues[i].ephemeral = 0
        /\ st.issues[i].pinned = 0
        /\ \/ st.issues[i].defer_until = <<>>
           \/ TextLeq(st.issues[i].defer_until, format_timestamp(now_utc))
        /\ ~ \E d \in st.dependencies :
               /\ d.issue_id = i
               /\ d.depends_on_id \in DOMAIN st.issues
               /\ d.type \in DepBlocking
               /\ st.issues[d.depends_on_id].status \in UnresolvedStatuses}

\* SQLiteStorage.get_ready_work({"limit": limit}), the rows returned:
\* ORDER BY i.priority ASC, i.created_at ASC on the stored text, then LIMIT
\* (none for limit 0).  Rows that the ORDER BY does not tell apart come in
\* any order, so this is the set of the possible results (lists of ids).
get_ready_work_rows(st, limit) ==
    LET ready == get_ready_work(st)
        key(i) == st.issues[i]
    IN {IF limit > 0 /\ limit < Len(o) THEN SubSeq(o, 1, limit) ELSE o :
           o \in {q \in [1..Cardinality(ready) -> ready] :
                    /\ \A i, j \in DOMAIN q : i # j => q[i] # q[j]
                    /\ \A i, j \in DOMAIN q :
                          i < j => \/ key(q[i]).priority < key(q[j]).priority
                                   \/ /\ key(q[i]).priority = key(q[j]).priority
                                      /\ TextLeq(key(q[i]).created_at,
                                                 key(q[j]).created_at)}}

\* a variant of get_blocked_issues whose join does not look at the
\* blocker's status
get_blocked_issues_any_blocker(st) ==
    LET joined(i) == {d \in st.dependencies :
                        /\ d.issue_id = i
                        /\ d.depends_on_id \in DOMAIN st.issues
                        /\ d.type \in DepBlocking}
    IN {<<i, {d.depends_on_id : d \in joined(i)}>> :
           i \in {j \in DOMAIN st.issues :
                     /\ st.issues[j].status \in UnresolvedStatuses
                     /\ joined(j) # {}}}

\* SQLiteStorage.get_blocked_issues: one pair per group of the join,
\* <<issue id, the depends_on_id values concatenated for it>>
get_blocked_issues(st) ==
    LET joined(i) == {d \in st.dependencies :
                        /\ d.issue_id = i
                        /\ d.depends_on_id \in DOMAIN st.issues
                        /\ d.type \in DepBlocking
                        /\ st.issues[d.depends_on_id].status \in UnresolvedStatuses}
    IN {<<i, {d.depends_on_id : d \in joined(i)}>> :
           i \in {j \in DOMAIN st.issues :
                     /\ st.issues[j].status \in UnresolvedStatuses
                     /\ joined(j) # {}}}

\* SQLiteStorage.search_issues("", IssueFilter(include_tombstones=True)):
\* every row, ORDER BY created_at DESC on the stored text.  Rows with equal
\* created_at come in an order SQL does not fix, so this is the set of the
\* possible result orders (as lists of ids).
search_issues(st) ==
    {o \in [1..Cardinality(DOMAIN st.issues) -> DOMAIN st.issues] :
        /\ \A i, j \in DOMAIN o : i # j => o[i] # o[j]
        /\ \A i, j \in DOMAIN o :
              i < j => TextLeq(st.issues[o[j]].created_at, st.issues[o[i]].created_at)}

-----------------------------------------------------------------------------
(* export.py *)

\* an export that leaves out the tombstones
RECURSIVE ExportLines_no_tombstones(_, _)
ExportLines_no_tombstones(st, order) ==
    IF order = <<>> THEN <<>>
    ELSE LET id == Head(order)
             i == _row_to_issue(id, st.issues[id])
         IN IF i.ephemeral \/ i.status = TOMBSTONE
            THEN ExportLines_no_tombstones(st, Tail(order))
            ELSE <<to_dict(get_issue(st, id))>> \o ExportLines_no_tombstones(st, Tail(order))

\* flush_to_jsonl, the lines written: one per non-ephemeral issue, in the
\* order search_issues returned them
RECURSIVE ExportLines(_, _)
ExportLines(st, order) ==
    IF order = <<>> THEN <<>>
    ELSE LET id == Head(order)
         IN IF _row_to_issue(id, st.issues[id]).ephemeral
            THEN ExportLines(st, Tail(order))
            ELSE <<to_dict(get_issue(st, id))>> \o ExportLines(st, Tail(order))

\* SQLiteStorage.get_dirty_issues, as a set
get_dirty_issues(st) == st.dirty_issues

\* a clear_dirty that leaves the markers of ephemeral issues
clear_dirty_exported(st, issue_ids) ==
    [st EXCEPT !.dirty_issues =
        {i \in @ : i \notin issue_ids \/ st.issues[i].ephemeral # 0}]

\* SQLiteStorage.clear_dirty
clear_dirty(st, issue_ids) ==
    [st EXCEPT !.dirty_issues = @ \ issue_ids]

\* flush_to_jsonl without an I/O failure: the new log, the store after
\* clear_dirty(get_dirty_issues()), and the returned count
flush_to_jsonl(st, order) ==
    LET lines == ExportLines(st, order)
    IN [log |-> lines,
        st |-> clear_dirty(st, get_dirty_issues(st)),
        count |-> Len(lines)]

-----------------------------------------------------------------------------
(* importer.py *)

ImportResult == [created |-> 0, updated |-> 0, unchanged |-> 0,
                 skipped |-> 0, deleted |-> 0]

\* ids that contain "-wisp-"
IsWisp(id) == id \in {"c-wisp-1"}

RECURSIVE SelectLines(_, _)
SelectLines(lines, deleted) ==
    IF lines = <<>> THEN <<>>
    ELSE IF Head(lines)._json = "object" /\ Head(lines)._deleted = deleted
         THEN <<Head(lines)>> \o SelectLines(Tail(lines), deleted)
         ELSE SelectLines(Tail(lines), deleted)

\* parse_jsonl: (issues, deletion markers) of a log.  A blank line is
\* passed over and a line that json.loads rejects is skipped with a warning;
\* on a line that holds another JSON value than an object, data.get raises
\* AttributeError, which ends the call.
parse_jsonl(lines) ==
    LET recs == SelectLines(lines, FALSE)
        dels == SelectLines(lines, TRUE)
    IN IF \E k \in DOMAIN lines : lines[k]._json = "value"
       THEN [issues |-> <<>>, deletion_ids |-> <<>>, err |-> "AttributeError"]
       ELSE
       [err |-> "",
        issues |-> [k \in DOMAIN recs |->
                       LET i == from_dict(recs[k])
                       IN [i EXCEPT !.updated_at = IF @ = NoTime THEN now_utc ELSE @,
                                    !.created_at = IF @ = NoTime THEN now_utc ELSE @]],
        deletion_ids |-> [k \in DOMAIN dels |-> dels[k].id]]

\* import_jsonl, "Process deletions first"
RECURSIVE ProcessDeletions(_, _, _)
ProcessDeletions_none(st, ids, deleted) == [st |-> st, deleted |-> deleted]
ProcessDeletions(st, ids, deleted) ==
    IF ids = <<>> THEN [st |-> st, deleted |-> deleted]
    ELSE IF Head(ids) \in DOMAIN st.issues
         THEN ProcessDeletions(delete_issue(st, Head(ids)).st, Tail(ids), deleted + 1)
         ELSE ProcessDeletions(st, Tail(ids), deleted)

\* import_jsonl, db_by_hash: built in search order, a later issue with the
\* same content_hash replaces an earlier one.  The id held for hash h.
RECURSIVE db_by_hash(_, _, _, _)
db_by_hash_missing(st, order, h, found) == found
db_by_hash(st, order, h, found) ==
    IF order = <<>> THEN found
    ELSE db_by_hash(st, Tail(order), h,
                    IF st.issues[Head(order)].content_hash = h
                    THEN Head(order) ELSE found)

\* import_jsonl, the patch of phase 2
ImportUpdates(incoming) ==
    [f \in {"title", "description", "design", "acceptance_criteria", "notes",
            "status", "priority", "issue_type", "assignee"}
           \cup (IF incoming.closed_at # NoTime THEN {"closed_at"} ELSE {})
           \cup (IF incoming.close_reason # "" THEN {"close_reason"} ELSE {})
           \cup (IF incoming.pinned THEN {"pinned"} ELSE {})
           \cup (IF incoming.external_ref \notin {None, ""} THEN {"external_ref"} ELSE {})
     |-> IF f = "assignee"
         THEN (IF incoming.assignee = "" THEN None ELSE incoming.assignee)
         ELSE incoming[f]]

\* import_jsonl, the loop over the incoming issues.  db is the store as it
\* was when existing_issues was read, order the order they were read in;
\* acc carries the store, seen_hashes, seen_ids, the tally and the exception
\* that ended the import, if any.
RECURSIVE ImportLoop(_, _, _, _)
ImportLoop_always_applies(acc, db, order, issues) ==
    IF issues = <<>> \/ acc.err # "" THEN acc
    ELSE LET r == IF Head(issues).id \in DOMAIN db.issues
                  THEN update_issue(acc.st, Head(issues).id, ImportUpdates(Head(issues)))
                  ELSE create_issue(acc.st, Head(issues))
         IN ImportLoop([acc EXCEPT !.st = r.st, !.err = r.err,
                                   !.result.updated = @ + 1],
                       db, order, Tail(issues))
ImportLoop(acc, db, order, issues) ==
    IF issues = <<>> \/ acc.err # "" THEN acc
    ELSE
    LET inc0 == Head(issues)
        incoming == [inc0 EXCEPT
                        !.content_hash = compute_content_hash(inc0),
                        !.ephemeral = @ \/ IsWisp(inc0.id)]
        h == incoming.content_hash
        rest == Tail(issues)
        count(field) == [acc EXCEPT !.result[field] = @ + 1,
                                    !.seen_hashes = @ \cup {h},
                                    !.seen_ids = IF h \in acc.seen_hashes THEN @
                                                 ELSE @ \cup {incoming.id}]
        by_hash == db_by_hash(db, order, h, None)
        call(r, field) == IF r.err # ""
                          THEN [count(field) EXCEPT !.st = r.st, !.err = r.err,
                                                    !.result = acc.result]
                          ELSE [count(field) EXCEPT !.st = r.st]
    IN IF h \in acc.seen_hashes THEN ImportLoop(count("skipped"), db, order, rest)
       ELSE IF incoming.id \in acc.seen_ids THEN ImportLoop(count("skipped"), db, order, rest)
       ELSE IF incoming.id \in DOMAIN db.issues
               /\ _row_to_issue(incoming.id, db.issues[incoming.id]).status = TOMBSTONE
            THEN ImportLoop(count("skipped"), db, order, rest)
       ELSE IF by_hash # None
            THEN ImportLoop(count(IF by_hash = incoming.id THEN "unchanged" ELSE "skipped"),
                            db, order, rest)
       ELSE IF incoming.id \in DOMAIN db.issues
            THEN IF Instant(incoming.updated_at) <=
                       Instant(_row_to_issue(incoming.id, db.issues[incoming.id]).updated_at)
                 THEN ImportLoop(count("unchanged"), db, order, rest)
                 ELSE ImportLoop(call(update_issue(acc.st, incoming.id, ImportUpdates(incoming)),
                                      "updated"), db, order, rest)
       ELSE ImportLoop(call(create_issue(acc.st, incoming), "created"), db, order, rest)

\* import_jsonl on a parsed log; order is the result order of the
\* search_issues call made after the deletions
import_jsonl(st, lines, order) ==
    LET parsed == parse_jsonl(lines)
        del == ProcessDeletions(st, parsed.deletion_ids, 0)
    IN ImportLoop([st |-> del.st, err |-> parsed.err, seen_hashes |-> {}, seen_ids |-> {},
                   result |-> [ImportResult EXCEPT !.deleted = del.deleted]],
                  del.st, order, parsed.issues)

\* the store on which import_jsonl calls search_issues
AfterDeletions(st, lines) ==
    ProcessDeletions(st, parse_jsonl(lines).deletion_ids, 0).st

-----------------------------------------------------------------------------
(* State machine of the store operations: issues are created, updated,     *)
(* closed and deleted, dependencies are added and removed.                 *)

\* the bd processes that may run at the same time
Procs == {"p1", "p2"}

\* a process that is not inside flush_to_jsonl
Idle == [pc |-> "idle", lines |-> <<>>, fd |-> "closed", before |-> <<>>,
         parent_id |-> "", row |-> <<>>]

NoResult == [op |-> "", id |-> "", dep |-> "", err |-> "",
             tally |-> ImportResult, count |-> 0,
             imported |-> FALSE, changed |-> FALSE, flushed |-> FALSE,
             value |-> None]

Init ==
    /\ store = EmptyStore
    /\ fresh = EmptyStore
    /\ log = <<>>
    /\ result = NoResult
    /\ clock = 1
    /\ imports = 0
    /\ pc = "edit"
    /\ disk = [exists |-> FALSE, mtime |-> 0, tmp_exists |-> FALSE, tmp |-> <<>>]
    /\ flushers = [p \in Procs |-> Idle]

\* the events table is append-only; the model stops mutating a store that
\* holds MaxEvents events
Room(st) == Len(st.events) < MaxEvents

Tick ==
    /\ clock < MaxClock
    /\ clock' = clock + 1
    /\ UNCHANGED <<store, fresh, log, result, imports, pc, disk, flushers>>

\* a store call on the working store whose outcome is examined: r is what
\* the call returned
StoreCall(op, id, dep, r) ==
    /\ pc = "edit"
    /\ store' = r.st
    /\ result' = [NoResult EXCEPT !.op = op, !.id = id, !.dep = dep, !.err = r.err]
    /\ imports' = 0
    /\ UNCHANGED <<fresh, log, clock, pc, disk, flushers>>

\* a store call on the working store made to build up its content
Edit(r) ==
    /\ pc = "edit"
    /\ store' = r.st
    /\ result' = NoResult
    /\ imports' = 0
    /\ UNCHANGED <<fresh, log, clock, pc, disk, flushers>>

DepTypes == {"blocks", "related"}

\* issues handed to create_issue by a caller of the store: a plain issue
\* with at most one embedded dependency record
NewIssues(id) ==
    {[Issue EXCEPT !.id = id, !.title = "T", !.dependencies = deps] :
        deps \in {<<>>} \cup {<<Dependency(id, x, "blocks")>> : x \in IDs}}

CreateIssue ==
    \E id \in IDs : \E issue \in NewIssues(id) :
        Room(store) /\ StoreCall("create_issue", id, "", create_issue(store, issue))

DeleteIssue ==
    \E id \in IDs :
        Room(store) /\ StoreCall("delete_issue", id, "", delete_issue(store, id))

AddDependency ==
    \E a \in IDs, b \in IDs, t \in DepTypes :
        Room(store) /\ StoreCall("add_dependency", a, b,
                                 add_dependency(store, Dependency(a, b, t)))

RemoveDependency ==
    \E a \in IDs, b \in IDs :
        Room(store) /\ StoreCall("remove_dependency", a, b, remove_dependency(store, a, b))

\* patches built by the update command for --status
StatusPatches == {[status |-> s] : s \in {IN_PROGRESS, PINNED}}

UpdateIssue ==
    \E id \in IDs : \E patch \in StatusPatches :
        Room(store) /\ StoreCall("update_issue", id, "", update_issue(store, id, patch))

CloseIssue ==
    \E id \in IDs :
        Room(store) /\ StoreCall("close_issue", id, "", close_issue(store, id, "done"))

Next ==
    \/ CreateIssue
    \/ UpdateIssue
    \/ CloseIssue
    \/ DeleteIssue
    \/ AddDependency
    \/ RemoveDependency

Spec == Init /\ [][Next]_vars

-----------------------------------------------------------------------------
(* State machine of the work queries: issues are created, deferred,        *)
(* blocked, moved between statuses, closed and reopened while the clock    *)
(* advances.                                                               *)

Offsets == {-1, 0, 1}

\* --defer values: the last tick's wall-clock reading in some time zone
DeferChoices == {[loc |-> MaxClock, off |-> o] : o \in Offsets}

\* issues handed to create_issue: plain, with one embedded dependency on
\* another issue, deferred, ephemeral, pinned
ReadyIssues(id) ==
    {[Issue EXCEPT !.id = id, !.title = "T", !.dependencies = deps] :
        deps \in {<<>>} \cup {<<Dependency(id, x, t)>> : x \in IDs \ {id}, t \in DepTypes}}
    \cup {[Issue EXCEPT !.id = id, !.title = "T", !.defer_until = d] : d \in DeferChoices}
    \cup {[Issue EXCEPT !.id = id, !.title = "T", !.ephemeral = TRUE],
          [Issue EXCEPT !.id = id, !.title = "T", !.pinned = TRUE]}

ReadyCreate ==
    \E id \in IDs : \E issue \in ReadyIssues(id) : Room(store) /\ Edit(create_issue(store, issue))

ReadyClose ==
    \E id \in IDs : Room(store) /\ Edit(close_issue(store, id, "done"))

NextReady ==
    \/ Tick
    \/ ReadyCreate
    \/ ReadyClose

SpecReady == Init /\ [][NextReady]_vars

\* issues of two priorities come into the store with the created_at of
\* their record: the instant of the call as a wall-clock reading in some
\* time zone (an import of a log written elsewhere)
OrderCreate ==
    \E id \in IDs, priority \in {0, 2}, off \in Offsets :
        Room(store) /\ Edit(create_issue(store,
                                [Issue EXCEPT !.id = id, !.title = "T",
                                              !.priority = priority,
                                              !.created_at = [loc |-> clock + off,
                                                              off |-> off]]))

\* ready work over such issues
SpecOrder ==
    Init /\ [][Tick \/ OrderCreate \/ ReadyClose]_vars

-----------------------------------------------------------------------------
(* State machine of the export / import round trip (test_roundtrip):       *)
(* a source store is built, flushed to the log, and the log is imported    *)
(* into a store opened on an empty database.                               *)

\* issues created in the source store
RoundTripIssues(id) ==
    {[Issue EXCEPT !.id = id, !.title = "X", !.created_at = now_utc,
                   !.updated_at = now_utc],
     [Issue EXCEPT !.id = id, !.title = "Y", !.description = "desc",
                   !.labels = {"urgent"}, !.created_at = now_utc,
                   !.updated_at = now_utc],
     [Issue EXCEPT !.id = id, !.title = "X", !.ephemeral = TRUE,
                   !.created_at = now_utc, !.updated_at = now_utc]}

RTCreate ==
    \E id \in IDs : \E issue \in RoundTripIssues(id) :
        Room(store) /\ Edit(create_issue(store, issue))

RTUpdate ==
    \E id \in IDs :
        Room(store) /\ Edit(update_issue(store, id, [title |-> "Y"]))

RTAddLabel ==
    \E id \in IDs :
        Room(store) /\ Edit(add_label(store, id, "urgent"))

RTAddDependency ==
    \E a \in IDs, b \in IDs :
        Room(store) /\ Edit(add_dependency(store, Dependency(a, b, "blocks")))

RTClose ==
    \E id \in IDs : Room(store) /\ Edit(close_issue(store, id, "done"))

RTReopen ==
    \E id \in IDs : Room(store) /\ Edit(reopen_issue(store, id))

\* flush_to_jsonl(store, jsonl_path)
Flush ==
    /\ pc = "edit"
    /\ \E order \in search_issues(store) :
          LET r == flush_to_jsonl(store, order)
          IN /\ log' = r.log
             /\ store' = r.st
             /\ result' = [NoResult EXCEPT !.op = "flush_to_jsonl", !.count = r.count]
    /\ pc' = "flushed"
    /\ imports' = 0
    /\ disk' = [disk EXCEPT !.exists = TRUE, !.mtime = clock]
    /\ UNCHANGED <<fresh, clock, flushers>>

\* import_jsonl(store2, jsonl_path) on the store opened on an empty database
ImportFresh ==
    /\ pc = "flushed"
    /\ \E order \in search_issues(AfterDeletions(EmptyStore, log)) :
          LET r == import_jsonl(EmptyStore, log, order)
          IN /\ fresh' = r.st
             /\ result' = [NoResult EXCEPT !.op = "import_jsonl", !.err = r.err,
                                           !.tally = r.result]
    /\ pc' = "imported"
    /\ imports' = 1
    /\ UNCHANGED <<store, log, clock, disk, flushers>>

NextRoundTrip ==
    \/ Tick
    \/ RTCreate
    \/ RTUpdate
    \/ RTAddLabel
    \/ RTAddDependency
    \/ RTClose
    \/ RTReopen
    \/ Flush
    \/ ImportFresh

SpecRoundTrip == Init /\ [][NextRoundTrip]_vars

-----------------------------------------------------------------------------
(* State machine of the importer: collaborators change the log (a merge,   *)
(* a pull) and import_jsonl reconciles it with the working store.          *)

At(t) == [loc |-> t, off |-> 0]

\* the issue records a log line may carry for one id: an old version, the
\* old version with a dependency on the next issue (for the first issue),
\* a tombstone, a later version that sets every content field, and a later
\* version that only retitles the issue
LogRecords(id) ==
    {[Issue EXCEPT !.id = id, !.title = "Old", !.created_at = At(1),
                   !.updated_at = At(1)],
     [Issue EXCEPT !.id = id, !.title = "Old", !.created_at = At(1),
                   !.updated_at = At(1),
                   !.dependencies =
                       IF id = IdName[1]
                       THEN <<Dependency(id, IdName[2], "blocks")>> ELSE <<>>],
     [Issue EXCEPT !.id = id, !.title = "Old", !.status = TOMBSTONE,
                   !.created_at = At(1), !.updated_at = At(1)],
     [Issue EXCEPT !.id = id, !.title = "New", !.description = "d",
                   !.design = "g", !.acceptance_criteria = "c",
                   !.notes = "n", !.status = IN_PROGRESS, !.priority = 1,
                   !.issue_type = "bug", !.assignee = "bob",
                   !.created_at = At(1), !.updated_at = At(MaxClock)],
     [Issue EXCEPT !.id = id, !.title = "New", !.created_at = At(1),
                   !.updated_at = At(MaxClock)]}

\* {"id": ..., "_deleted": true}
DeletionMarker(id) == [Issue EXCEPT !.id = id, !._deleted = TRUE]

LogLines == UNION {{to_dict(i) : i \in LogRecords(id)} \cup {DeletionMarker(id)} : id \in IDs}

\* a collaborator's change (a merge, a pull) adds a line to issues.jsonl
AppendLine ==
    /\ pc = "edit"
    /\ Room(store)
    /\ Len(log) < MaxLog
    /\ \E l \in LogLines : log' = Append(log, l)
    /\ imports' = 0
    /\ result' = NoResult
    /\ disk' = [disk EXCEPT !.exists = TRUE, !.mtime = clock]
    /\ UNCHANGED <<store, fresh, clock, pc, flushers>>

\* a collaborator's change empties issues.jsonl
TruncateLog ==
    /\ pc = "edit"
    /\ Room(store)
    /\ log # <<>>
    /\ log' = <<>>
    /\ imports' = 0
    /\ result' = NoResult
    /\ disk' = [disk EXCEPT !.exists = TRUE, !.mtime = clock]
    /\ UNCHANGED <<store, fresh, clock, pc, flushers>>

\* import_jsonl(store, jsonl_path) on the working store
ImportJsonl ==
    /\ pc = "edit"
    /\ Room(store)
    /\ log # <<>>
    /\ imports < 2
    /\ \E order \in search_issues(AfterDeletions(store, log)) :
          LET r == import_jsonl(store, log, order)
          IN /\ store' = r.st
             /\ result' = [NoResult EXCEPT !.op = "import_jsonl", !.err = r.err,
                                           !.tally = r.result]
    /\ imports' = imports + 1
    /\ UNCHANGED <<fresh, log, clock, pc, disk, flushers>>

NextImport ==
    \/ Tick
    \/ AppendLine
    \/ TruncateLog
    \/ ImportJsonl

SpecImport == Init /\ [][NextImport]_vars

\* a line that is no issue record and no deletion marker comes into
\* issues.jsonl (an editor, a merge conflict, a truncated write)
AppendJunk ==
    /\ pc = "edit"
    /\ Room(store)
    /\ Len(log) < MaxLog
    /\ \E kind \in {"blank", "invalid", "value"} :
          log' = Append(log, [Issue EXCEPT !._json = kind])
    /\ imports' = 0
    /\ result' = NoResult
    /\ disk' = [disk EXCEPT !.exists = TRUE, !.mtime = clock]
    /\ UNCHANGED <<store, fresh, clock, pc, flushers>>

\* imports of logs that hold such lines
SpecParse ==
    Init /\ [][AppendLine \/ AppendJunk \/ TruncateLog \/ ImportJsonl]_vars

-----------------------------------------------------------------------------
(* State machine of a long dependency chain: issues n001, n002, ... are    *)
(* created one by one, each made to depend on the one before it, and       *)
(* add_dependency is asked for edges from the start of the chain to its    *)
(* latest issue.                                                           *)

ChainName ==
    <<"n001", "n002", "n003", "n004", "n005", "n006", "n007", "n008",
      "n009", "n010", "n011", "n012", "n013", "n014", "n015", "n016",
      "n017", "n018", "n019", "n020", "n021", "n022", "n023", "n024",
      "n025", "n026", "n027", "n028", "n029", "n030", "n031", "n032",
      "n033", "n034", "n035", "n036", "n037", "n038", "n039", "n040",
      "n041", "n042", "n043", "n044", "n045", "n046", "n047", "n048",
      "n049", "n050", "n051", "n052", "n053", "n054", "n055", "n056",
      "n057", "n058", "n059", "n060", "n061", "n062", "n063", "n064",
      "n065", "n066", "n067", "n068", "n069", "n070", "n071", "n072",
      "n073", "n074", "n075", "n076", "n077", "n078", "n079", "n080",
      "n081", "n082", "n083", "n084", "n085", "n086", "n087", "n088",
      "n089", "n090", "n091", "n092", "n093", "n094", "n095", "n096",
      "n097", "n098", "n099", "n100", "n101", "n102", "n103", "n104">>

ChainSize(st) == Cardinality(DOMAIN st.issues)

\* every issue of the chain but the first depends on the one before it
Linked(st) ==
    \A k \in 2..ChainSize(st) :
        \E d \in st.dependencies :
            d.issue_id = ChainName[k] /\ d.depends_on_id = ChainName[k - 1]

ChainCreate ==
    /\ ChainSize(store) < ChainLen
    /\ Linked(store)
    /\ LET id == ChainName[ChainSize(store) + 1]
       IN StoreCall("create_issue", id, "",
                    create_issue(store, [Issue EXCEPT !.id = id, !.title = "T"]))

ChainLink ==
    /\ ChainSize(store) >= 2
    /\ ~Linked(store)
    /\ LET a == ChainName[ChainSize(store)]
           b == ChainName[ChainSize(store) - 1]
       IN StoreCall("add_dependency", a, b,
                    add_dependency(store, Dependency(a, b, "related")))

ChainClose ==
    /\ ChainSize(store) >= 2
    /\ Linked(store)
    /\ \E a \in {ChainName[1], ChainName[2]}, t \in DepTypes :
          LET b == ChainName[ChainSize(store)]
          IN /\ ~ \E d \in store.dependencies :
                    d.issue_id = a /\ d.depends_on_id = b
             /\ StoreCall("add_dependency", a, b,
                          add_dependency(store, Dependency(a, b, t)))

NextChain ==
    \/ ChainCreate
    \/ ChainLink
    \/ ChainClose

SpecChain == Init /\ [][NextChain]_vars

-----------------------------------------------------------------------------
(* State machine of the issue life cycle: issues are created, imported     *)
(* from a log file, updated, closed and reopened.                          *)

\* issues handed to create_issue: a plain one, one that is already closed
\* (as the importer creates them), one marked closed without a closing time
LifeIssues(id) ==
    {[Issue EXCEPT !.id = id, !.title = "T"],
     [Issue EXCEPT !.id = id, !.title = "T", !.status = CLOSED,
                   !.closed_at = At(1), !.close_reason = "done"],
     [Issue EXCEPT !.id = id, !.title = "T", !.status = CLOSED]}

\* patches handed to update_issue: --status values of the update command
\* (which adds closed_at to a closing patch), a bare closing patch, --title ""
LifePatches ==
    {[status |-> IN_PROGRESS], [status |-> TOMBSTONE], [status |-> CLOSED],
     [status |-> CLOSED, closed_at |-> now_utc], [title |-> ""]}

\* the log files imported: one line, a later version of an issue that is
\* closed, open, or has no title; or two lines, a deletion marker of an
\* issue and a later version of it
LifeLogs ==
    {<<to_dict([Issue EXCEPT !.id = id, !.title = "New", !.status = CLOSED,
                             !.closed_at = At(MaxClock), !.created_at = At(1),
                             !.updated_at = At(MaxClock)])>> : id \in IDs}
    \cup {<<to_dict([Issue EXCEPT !.id = id, !.title = "New",
                                  !.created_at = At(1),
                                  !.updated_at = At(MaxClock)])>> : id \in IDs}
    \cup {<<to_dict([Issue EXCEPT !.id = id, !.created_at = At(1),
                                  !.updated_at = At(MaxClock)])>> : id \in IDs}
    \cup {<<DeletionMarker(id),
            to_dict([Issue EXCEPT !.id = id, !.title = "New",
                                  !.created_at = At(1),
                                  !.updated_at = At(MaxClock)])>> : id \in IDs}

LifeCreate ==
    \E id \in IDs : \E issue \in LifeIssues(id) :
        Room(store) /\ StoreCall("create_issue", id, "", create_issue(store, issue))

LifeUpdate ==
    \E id \in IDs : \E patch \in LifePatches :
        Room(store) /\ StoreCall("update_issue", id, "", update_issue(store, id, patch))

LifeClose ==
    \E id \in IDs :
        Room(store) /\ StoreCall("close_issue", id, "", close_issue(store, id, "done"))

LifeReopen ==
    \E id \in IDs :
        Room(store) /\ StoreCall("reopen_issue", id, "", reopen_issue(store, id))

\* import_jsonl(store, path) on a log file handed to the importer
LifeImport ==
    \E lines \in LifeLogs : \E order \in search_issues(AfterDeletions(store, lines)) :
        Room(store) /\ StoreCall("import_jsonl", "", "", import_jsonl(store, lines, order))

NextLife ==
    \/ LifeCreate
    \/ LifeUpdate
    \/ LifeClose
    \/ LifeReopen
    \/ LifeImport

SpecLife == Init /\ [][NextLife]_vars

-----------------------------------------------------------------------------
(* State machine of one process that edits the store and flushes it to     *)
(* the log again and again (bd sync --flush-only between the edits).       *)

\* flush_to_jsonl(store, jsonl_path), after which editing goes on
SyncFlush ==
    /\ pc = "edit"
    /\ \E order \in search_issues(store) :
          LET r == flush_to_jsonl(store, order)
          IN /\ log' = r.log
             /\ store' = r.st
             /\ result' = [NoResult EXCEPT !.op = "flush_to_jsonl", !.count = r.count]
    /\ disk' = [disk EXCEPT !.exists = TRUE, !.mtime = clock]
    /\ imports' = 0
    /\ UNCHANGED <<fresh, clock, pc, flushers>>

NextSync ==
    \/ RTCreate
    \/ LifeUpdate
    \/ RTClose
    \/ RTReopen
    \/ RTAddLabel
    \/ AddDependency
    \/ RemoveDependency
    \/ DeleteIssue
    \/ SyncFlush

SpecSync == Init /\ [][NextSync]_vars

\* the store operations of Spec with flushes between them
NextDirty ==
    \/ CreateIssue
    \/ UpdateIssue
    \/ CloseIssue
    \/ DeleteIssue
    \/ AddDependency
    \/ RemoveDependency
    \/ SyncFlush

SpecDirty == Init /\ [][NextDirty]_vars

-----------------------------------------------------------------------------
(* State machine of partial failures: store mutations of which some raise  *)
(* after their first statements were executed.  store is what the handle   *)
(* reads; the commit that ends a successful mutation makes all of it       *)
(* durable.                                                                *)

\* create_issue of an issue with a label and embedded comments, as import
\* hands them over: a comment names its issue, no issue or another issue.
\* The model stops adding comments to a table that holds MaxEvents of them.
TxnCreate ==
    \E id \in IDs : \E cs \in {<<>>} \cup {<<Comment(x, "bob", "hi")>> : x \in IDs \cup {""}}
                                  \cup {<<Comment("", "bob", "hi"), Comment(x, "ann", "yo")>> : x \in IDs} :
        Room(store) /\ Len(store.comments) < MaxEvents
                    /\ StoreCall("create_issue", id, "",
                                 create_issue(store, [Issue EXCEPT !.id = id, !.title = "T",
                                                         !.labels = {"l1"}, !.comments = cs]))

\* delete_issue(id); count records how many rows of the other tables
\* named the issue when it was called
TxnDelete ==
    \E id \in IDs :
        /\ pc = "edit"
        /\ Room(store)
        /\ store' = delete_issue(store, id).st
        /\ result' = [NoResult EXCEPT
              !.op = "delete_issue", !.id = id,
              !.count =
                 Cardinality({d \in store.dependencies :
                                 d.issue_id = id \/ d.depends_on_id = id})
                 + Cardinality({l \in store.labels : l[1] = id})
                 + Len(SelectSeq(store.comments, LAMBDA c : c.issue_id = id))
                 + Cardinality(store.dirty_issues \cap {id})]
        /\ imports' = 0
        /\ UNCHANGED <<fresh, log, clock, pc, disk, flushers>>

SpecTxn ==
    Init /\ [][TxnCreate \/ AddDependency \/ RemoveDependency \/ CloseIssue
                 \/ TxnDelete]_vars

-----------------------------------------------------------------------------
(* State machine of the command line: every bd command opens the store,    *)
(* imports the log if it is newer than the last import, runs its body and, *)
(* if it is a mutating command, flushes the store to the log.  The log is  *)
(* also changed by collaborators.                                          *)

\* auto_import_if_needed(store, jsonl_path): lines and file are the content
\* and the directory entry of the log, order the result order of the
\* search_issues call of import_jsonl.  str(mtime) is stored as the 1-tuple
\* <<mtime>>, float() takes it back.
auto_import_if_needed(st, lines, file, order) ==
    IF ~file.exists THEN [st |-> st, err |-> "", ran |-> FALSE]
    ELSE IF "last_import_mtime" \in DOMAIN st.metadata
            /\ st.metadata["last_import_mtime"][1] >= file.mtime
         THEN [st |-> st, err |-> "", ran |-> FALSE]
    ELSE LET r == import_jsonl(st, lines, order)
         IN IF r.err # "" THEN [st |-> r.st, err |-> r.err, ran |-> TRUE]
            ELSE [st |-> [r.st EXCEPT !.metadata =
                            [k \in DOMAIN @ \cup {"last_import_mtime"} |->
                                IF k = "last_import_mtime" THEN <<file.mtime>> ELSE @[k]]],
                  err |-> "", ran |-> TRUE]

\* BeadsContext.auto_flush with the default configuration
auto_flush(st, lines, order) ==
    IF st.dirty_issues = {} THEN [st |-> st, log |-> lines, flushed |-> FALSE]
    ELSE LET r == flush_to_jsonl(st, order)
         IN [st |-> r.st, log |-> r.log, flushed |-> TRUE]

\* the SQL operator LIKE of SQLite on strings: % matches any run of
\* characters, _ any one character, and a letter matches in either case
\* (the upper-case letters of the model are A, B and D)
RECURSIVE like(_, _)
like(pattern, text) ==
    LET lower(c) == CASE c = "A" -> "a" [] c = "B" -> "b" [] c = "D" -> "d"
                      [] OTHER -> c
    IN IF pattern = "" THEN text = ""
       ELSE IF Head(pattern) = "%"
            THEN \E k \in 0..Len(text) :
                    like(Tail(pattern), SubSeq(text, k + 1, Len(text)))
       ELSE /\ text # ""
            /\ Head(pattern) = "_" \/ lower(Head(pattern)) = lower(Head(text))
            /\ like(Tail(pattern), Tail(text))

\* SQLiteStorage.resolve_id: the exact match, else the only row of
\* SELECT id FROM issues WHERE id LIKE partial || '%'
resolve_id(st, partial) ==
    IF partial \in DOMAIN st.issues THEN partial
    ELSE LET rows == {id \in DOMAIN st.issues : like(partial \o "%", id)}
         IN IF Cardinality(rows) = 1 THEN CHOOSE id \in rows : TRUE ELSE None

\* id_gen.parse_hierarchical_id: (root_id, parent_id, depth).  parts[1:] of
\* issue_id.split(".") are the runs that follow the dots; str.isdigit is
\* false for the empty string.
parse_hierarchical_id(issue_id) ==
    LET n == Len(issue_id)
        dots == {i \in 1..n : SubSeq(issue_id, i, i) = "."}
        isdigit(i) ==   \* the part that follows the dot at position i
            /\ i < n /\ i + 1 \notin dots
            /\ \A j \in (i + 1)..n :
                  (\A k \in dots : k <= i \/ k > j) =>
                      SubSeq(issue_id, j, j) \in
                          {"0", "1", "2", "3", "4", "5", "6", "7", "8", "9"}
    IN IF dots = {} \/ \E i \in dots : ~isdigit(i)
       THEN [root_id |-> issue_id, parent_id |-> "", depth |-> 0]
       ELSE [root_id |-> SubSeq(issue_id, 1, (CHOOSE i \in dots : \A k \in dots : i <= k) - 1),
             parent_id |-> SubSeq(issue_id, 1, (CHOOSE i \in dots : \A k \in dots : i >= k) - 1),
             depth |-> Cardinality(dots)]

MAX_HIERARCHY_DEPTH == 3

\* id_gen.check_hierarchy_depth with the default max_depth: the error
\* message, None when a child may be added
check_hierarchy_depth(parent_id) ==
    IF Cardinality({i \in 1..Len(parent_id) : SubSeq(parent_id, i, i) = "."})
          >= MAX_HIERARCHY_DEPTH
    THEN "maximum hierarchy depth exceeded" ELSE None

\* id_gen.make_issue_id: prefix-{the first length characters of the hash}
make_issue_id(prefix, full_hash, length) ==
    prefix \o "-" \o SubSeq(full_hash, 1, length)

\* bd create without --id and --parent, "Progressive collision handling":
\* the loop tries the lengths 6..12 and stops at the first ID that
\* get_issue does not find; after the last round the ID of length 13 is
\* taken as it is
RECURSIVE progressive_id(_, _, _, _)
progressive_id_six(st, prefix, full_hash, length) ==
    make_issue_id(prefix, full_hash, 6)
progressive_id(st, prefix, full_hash, length) ==
    IF length > 12 \/ make_issue_id(prefix, full_hash, length) \notin DOMAIN st.issues
    THEN make_issue_id(prefix, full_hash, length)
    ELSE progressive_id(st, prefix, full_hash, length + 1)

\* bd create --id ID --deps D...: the body of the create command
RECURSIVE create_deps(_, _, _)
create_deps(st, id, deps) ==
    IF deps = <<>> THEN Ok(st)
    ELSE IF resolve_id(st, Head(deps)) = None THEN Raise(st, "exit 1")
    ELSE create_deps(add_dependency(st, Dependency(id, Head(deps), "blocks")).st,
                     id, Tail(deps))

\* bd close ID...: the loop of the close command
RECURSIVE close_ids(_, _)
close_ids(st, ids) ==
    IF ids = <<>> THEN Ok(st)
    ELSE IF resolve_id(st, Head(ids)) = None THEN Raise(st, "exit 1")
    ELSE IF get_issue(st, Head(ids)).status = CLOSED THEN close_ids(st, Tail(ids))
    ELSE LET r == close_issue(st, Head(ids), "")
         IN IF r.err # "" THEN r ELSE close_ids(r.st, Tail(ids))

\* a bd command from ensure_initialized to its exit.  The body of the
\* command, between ensure_initialized and auto_flush, ends the command when
\* it raises or calls sys.exit; read-only commands do not call auto_flush.
\* create takes --id id and --deps args, or --parent id (the op
\* "bd create --parent") and --deps args; close takes the ids args.
Command(op, mutating, id, args) ==
    /\ pc = "edit"
    /\ \E o1 \in search_issues(AfterDeletions(store, log)) :
       \E imp \in {auto_import_if_needed(store, log, disk, o1)} :
       \E made \in {create_issue(imp.st, [Issue EXCEPT !.id = id, !.title = "T",
                                              !.created_at = now_utc,
                                              !.updated_at = now_utc])} :
       \E parent_id \in {IF op = "bd create --parent" /\ imp.err = ""
                         THEN resolve_id(imp.st, id) ELSE None} :
       \E num \in {IF parent_id = None THEN [st |-> imp.st, err |-> "", count |-> 0]
                   ELSE next_child_number(imp.st, parent_id,
                            IF parent_id \in DOMAIN imp.st.child_counters
                            THEN <<imp.st.child_counters[parent_id]>> ELSE <<>>)} :
       \E child \in {parent_id \o "." \o ToString(num.count)} :
       \E body \in {IF imp.err # "" THEN Raise(imp.st, imp.err)
                    ELSE IF op = "bd create"
                         THEN IF made.err # "" THEN made
                              ELSE create_deps(made.st, id, args)
                    ELSE IF op = "bd create --parent"
                         THEN IF parent_id = None THEN Raise(imp.st, "exit 1")
                              ELSE IF check_hierarchy_depth(parent_id) # None
                                   THEN Raise(imp.st, check_hierarchy_depth(parent_id))
                              ELSE IF num.err # "" THEN Raise(num.st, num.err)
                              ELSE LET r == create_issue(num.st,
                                              [Issue EXCEPT !.id = child, !.title = "T",
                                                            !.created_at = now_utc,
                                                            !.updated_at = now_utc])
                                   IN IF r.err # "" THEN r
                                      ELSE create_deps(r.st, child, args)
                    ELSE IF op = "bd close" THEN close_ids(imp.st, args)
                    ELSE Ok(imp.st)} :
       \E o2 \in search_issues(body.st) :
       \E out \in {IF mutating /\ body.err = ""
                   THEN auto_flush(body.st, log, o2)
                   ELSE [st |-> body.st, log |-> log, flushed |-> FALSE]} :
          /\ store' = out.st
          /\ log' = out.log
          /\ disk' = IF out.flushed
                     THEN [disk EXCEPT !.exists = TRUE, !.mtime = clock]
                     ELSE disk
          /\ result' = [NoResult EXCEPT
                           !.op = op, !.err = body.err,
                           !.imported = imp.ran,
                           !.changed = (body.st # imp.st),
                           !.value = parent_id,
                           !.flushed = out.flushed]
    /\ imports' = 0
    /\ UNCHANGED <<fresh, clock, pc, flushers>>

CmdCreate ==
    \E id \in IDs : \E deps \in {<<>>} \cup {<<d>> : d \in IDs \ {id}} :
        Room(store) /\ Command("bd create", TRUE, id, deps)

CmdClose ==
    \E ids \in {<<a>> : a \in IDs} \cup {<<a, b>> : a, b \in IDs} :
        Room(store) /\ Command("bd close", TRUE, "", ids)

\* bd list: a read-only command
CmdList ==
    Room(store) /\ Command("bd list", FALSE, "", <<>>)

\* a collaborator's change arrives (git pull): the log now holds a later
\* version of the first issue, with every content field set or only retitled
Pull ==
    /\ pc = "edit"
    /\ Room(store)
    /\ \E r \in {x \in LogRecords(IdName[1]) : x.updated_at = At(MaxClock)} :
          /\ log # <<to_dict(r)>>
          /\ log' = <<to_dict(r)>>
    /\ disk' = [disk EXCEPT !.exists = TRUE, !.mtime = clock]
    /\ result' = NoResult
    /\ imports' = 0
    /\ UNCHANGED <<store, fresh, clock, pc, flushers>>

NextCmd ==
    \/ Tick
    \/ Pull
    \/ CmdCreate
    \/ CmdClose
    \/ CmdList

SpecCmd == Init /\ [][NextCmd]_vars

-----------------------------------------------------------------------------
(* State machine of issue IDs: issues are created under IDs given with     *)
(* --id and as children of other issues, and partial IDs are resolved.     *)

\* bd create --id ID, the IDs of this scenario
IdCreate ==
    \E id \in {"ab", "abc", "ABd", "r", "r.1", "r.1.1", "v.x.y.z"} :
        Room(store) /\ Command("bd create", TRUE, id, <<>>)

\* bd create --parent PARTIAL
CmdChild ==
    \E partial \in {"r", "r.1.1.1", "v", "ab", "zz"} :
        Room(store) /\ Command("bd create --parent", TRUE, partial, <<>>)

\* store.resolve_id(partial), as resolve_issue_id calls it
IdResolve ==
    \E partial \in {"ab", "AB", "a_", "r", "zz"} :
        /\ pc = "edit"
        /\ result' = [NoResult EXCEPT !.op = "resolve_id", !.id = partial,
                                      !.value = resolve_id(store, partial)]
        /\ imports' = 0
        /\ UNCHANGED <<store, fresh, log, clock, pc, disk, flushers>>

SpecIds ==
    Init /\ [][IdCreate \/ CmdChild \/ IdResolve]_vars

-----------------------------------------------------------------------------
(* State machine of flush_to_jsonl, statement by statement, in two bd      *)
(* processes that work on the same project (each is one command calling    *)
(* auto_flush) while issues are created.  A file that a process holds open *)
(* is known by where its inode is now: still at the temporary path         *)
(* ("tmp"), renamed to the log path by another process ("log"), or         *)
(* unlinked ("orphan").  The logs are smaller than the 8 KiB write buffer, *)
(* so the lines written reach the inode when the file is closed, from      *)
(* offset 0.                                                               *)

\* the content of a file after data is written over it from offset 0
Overwrite(data, content) ==
    data \o SubSeq(content, Len(data) + 1, Len(content))

\* a step of process p inside flush_to_jsonl that ends at position next
FlushStep(p, next, f) ==
    /\ pc = "edit"
    /\ flushers' = [flushers EXCEPT ![p] = [f EXCEPT !.pc = next]]
    /\ imports' = 0
    /\ UNCHANGED <<fresh, clock, pc>>

\* the except branch: unlink the temporary path if it exists, re-raise
FlushRaise(p, e) ==
    /\ pc = "edit"
    /\ disk' = [disk EXCEPT !.tmp_exists = FALSE, !.tmp = <<>>]
    /\ flushers' = [q \in Procs |->
                       IF q = p THEN [flushers[p] EXCEPT !.pc = "idle", !.fd = "closed"]
                       ELSE IF flushers[q].fd = "tmp"
                            THEN [flushers[q] EXCEPT !.fd = "orphan"]
                            ELSE flushers[q]]
    /\ result' = [NoResult EXCEPT !.op = "flush_to_jsonl", !.id = p, !.err = e]
    /\ imports' = 0
    /\ UNCHANGED <<store, fresh, log, clock, pc>>

\* search_issues and the get_issue loop: the issues to write
FlushRead ==
    \E p \in Procs : \E order \in search_issues(store) :
        /\ flushers[p].pc = "idle"
        /\ FlushStep(p, "open", [Idle EXCEPT !.lines = ExportLines(store, order),
                                             !.before = log])
        /\ UNCHANGED <<store, log, result, disk>>

\* open(tmp_path, "w"): creates the file, or truncates the one that is there
FlushOpen ==
    \E p \in Procs :
        /\ flushers[p].pc = "open"
        /\ FlushStep(p, "write", [flushers[p] EXCEPT !.fd = "tmp"])
        /\ disk' = [disk EXCEPT !.tmp_exists = TRUE, !.tmp = <<>>]
        /\ UNCHANGED <<store, log, result>>

\* the write loop and the end of the with block: the lines reach the inode
FlushClose ==
    \E p \in Procs :
        /\ flushers[p].pc = "write"
        /\ FlushStep(p, "replace", [flushers[p] EXCEPT !.fd = "closed"])
        /\ disk' = IF flushers[p].fd = "tmp"
                   THEN [disk EXCEPT !.tmp = Overwrite(flushers[p].lines, @)]
                   ELSE disk
        /\ log' = IF flushers[p].fd = "log"
                  THEN Overwrite(flushers[p].lines, log)
                  ELSE log
        /\ UNCHANGED <<store, result>>

\* an exception inside the write loop (an I/O error)
FlushFail ==
    \E p \in Procs :
        /\ flushers[p].pc = "write"
        /\ FlushRaise(p, "OSError")

\* os.replace(tmp_path, jsonl_path); FileNotFoundError without a temporary
\* file
FlushReplace ==
    \E p \in Procs :
        /\ flushers[p].pc = "replace"
        /\ IF disk.tmp_exists
           THEN /\ pc = "edit"
                /\ log' = disk.tmp
                /\ disk' = [disk EXCEPT !.exists = TRUE, !.mtime = clock,
                                        !.tmp_exists = FALSE, !.tmp = <<>>]
                /\ flushers' = [q \in Procs |->
                                   IF q = p THEN [flushers[p] EXCEPT !.pc = "clear"]
                                   ELSE IF flushers[q].fd = "tmp"
                                        THEN [flushers[q] EXCEPT !.fd = "log"]
                                   ELSE IF flushers[q].fd = "log"
                                        THEN [flushers[q] EXCEPT !.fd = "orphan"]
                                   ELSE flushers[q]]
                /\ imports' = 0
                /\ UNCHANGED <<store, fresh, result, clock, pc>>
           ELSE FlushRaise(p, "FileNotFoundError")

\* get_dirty_issues, clear_dirty, return count
FlushClear ==
    \E p \in Procs :
        /\ flushers[p].pc = "clear"
        /\ FlushStep(p, "idle", flushers[p])
        /\ store' = [store EXCEPT !.dirty_issues = {}]
        /\ result' = [NoResult EXCEPT !.op = "flush_to_jsonl", !.id = p,
                                      !.count = Len(flushers[p].lines)]
        /\ UNCHANGED <<log, disk>>

\* another command creates an issue meanwhile
FlushCreate ==
    \E id \in IDs :
        Room(store) /\ Edit(create_issue(store, [Issue EXCEPT !.id = id, !.title = "T"]))

NextFlush ==
    \/ FlushCreate
    \/ FlushRead
    \/ FlushOpen
    \/ FlushClose
    \/ FlushFail
    \/ FlushReplace
    \/ FlushClear

SpecFlush == Init /\ [][NextFlush]_vars

-----------------------------------------------------------------------------
(* State machine of next_child_number in two bd processes that share the   *)
(* database file.  The SELECT runs outside any transaction (the sqlite3    *)
(* module opens one only before the first INSERT or UPDATE), so another    *)
(* process may commit between the SELECT and the write.                    *)

\* process p calls next_child_number(parent_id): the SELECT and fetchone
ChildSelect ==
    \E p \in Procs, parent_id \in IDs :
        /\ flushers[p].pc = "idle"
        /\ parent_id \in DOMAIN store.child_counters
               => store.child_counters[parent_id] < MaxChild
        /\ FlushStep(p, "selected",
                     [Idle EXCEPT !.parent_id = parent_id,
                                  !.row = IF parent_id \in DOMAIN store.child_counters
                                          THEN <<store.child_counters[parent_id]>>
                                          ELSE <<>>])
        /\ result' = NoResult
        /\ UNCHANGED <<store, log, disk>>

\* process p runs the rest of the call: UPDATE or INSERT, commit, return
ChildWrite ==
    \E p \in Procs :
        /\ flushers[p].pc = "selected"
        /\ FlushStep(p, "idle", Idle)
        /\ LET r == next_child_number(store, flushers[p].parent_id, flushers[p].row)
           IN /\ store' = r.st
              /\ result' = [NoResult EXCEPT !.op = "next_child_number",
                                            !.id = flushers[p].parent_id,
                                            !.err = r.err, !.count = r.count]
        /\ UNCHANGED <<log, disk>>

SpecChild ==
    Init /\ [][FlushCreate \/ DeleteIssue \/ ChildSelect \/ ChildWrite]_vars

-----------------------------------------------------------------------------
(* State machine of hash IDs: bd create mints the ID of each new issue     *)
(* from a SHA-256 digest, in a store that holds issues whose IDs were      *)
(* minted from the same digest or from one that shares its first seven    *)
(* characters.  Auto-import and auto-flush are switched off               *)
(* (no_auto_import, no_auto_flush).                                        *)

\* an issue whose ID was formed from the digest at some length comes into
\* the store (created by an import); the issues come in by length
MintTaken ==
    \E length \in 6..13 :
        \E id \in {make_issue_id("bd", "a3f2dd0000000000", length)} :
            /\ Cardinality(DOMAIN store.issues) < MaxMint
            /\ \A x \in DOMAIN store.issues : Len(x) < Len(id)
            /\ Edit(create_issue(store, [Issue EXCEPT !.id = id, !.title = "T",
                                                     !.created_at = now_utc,
                                                     !.updated_at = now_utc]))

\* bd create TITLE: generate_hash_id returns one of two digests, the
\* collision loop forms the ID and create_issue is called with it
MintCreate ==
    \E full_hash \in {"a3f2dd0000000000", "a3f2dd0111111111"} :
        \E issue_id \in {progressive_id(store, "bd", full_hash, 6)} :
            \E r \in {create_issue(store, [Issue EXCEPT !.id = issue_id, !.title = "T",
                                                      !.created_at = now_utc,
                                                      !.updated_at = now_utc])} :
                /\ pc = "edit"
                /\ Cardinality(DOMAIN store.issues) < MaxMint
                /\ store' = r.st
                /\ result' = [NoResult EXCEPT !.op = "bd create", !.id = full_hash,
                                              !.value = issue_id, !.err = r.err]
                /\ imports' = 0
                /\ UNCHANGED <<fresh, log, clock, pc, disk, flushers>>

SpecMint == Init /\ [][MintTaken \/ MintCreate]_vars

-----------------------------------------------------------------------------
(* State machine of one clone that edits its store, flushes it to the log  *)
(* and imports its own log again, as every command does after an           *)
(* auto-flush has raised the modification time of the log.                 *)

SpecOwn ==
    Init /\ [][RTCreate \/ LifeUpdate \/ RTClose \/ AddDependency
                 \/ SyncFlush \/ ImportJsonl]_vars

-----------------------------------------------------------------------------
(* Properties *)

\* the ids of S and the ids one edge of deps away from them
OneHop(deps, S) ==
    S \cup {d.depends_on_id : d \in {e \in deps : e.issue_id \in S}}

\* the ids reached from the ids of S by following at most k edges of deps:
\* k hops are about k/2 hops from S, then the remaining hops from there
RECURSIVE WithinHops(_, _, _)
WithinHops(deps, S, k) ==
    IF k = 0 THEN S
    ELSE IF k = 1 THEN OneHop(deps, S)
    ELSE UNION {WithinHops(deps, T, k - (k \div 2)) :
                   T \in {WithinHops(deps, S, k \div 2)}}

\* the ids reached from b by following any number of edges of deps
Descendants(deps, b) == WithinHops(deps, {b}, Cardinality(deps))

BlockingTypes == {"blocks", "parent-child", "conditional-blocks", "waits-for"}

\* the statuses of a blocker that keeps an edge unmet
ActiveStatuses == {"open", "in_progress", "blocked", "deferred", "hooked"}

\* the blockers of issue i whose status is in the set S
BlockersIn(st, i, S) ==
    {d.depends_on_id : d \in
        {e \in st.dependencies :
            /\ e.issue_id = i
            /\ e.type \in BlockingTypes
            /\ e.depends_on_id \in DOMAIN st.issues
            /\ get_issue(st, e.depends_on_id).status \in S}}

\* C1: after any sequence of store operations the dependency table, edges
\* of every type counted, holds no self-edge and no directed cycle
C1_GraphAcyclic ==
    \A d \in store.dependencies :
        d.issue_id \notin Descendants(store.dependencies, d.depends_on_id)

\* the issues flush_to_jsonl writes to the log
Exported(st) == {i \in DOMAIN st.issues : ~get_issue(st, i).ephemeral}

\* C2: after a flush of the source store and an import of the log into an
\* empty store, every edge between two exported issues is in the fresh
\* store, whatever the creation order.  Stated for sources whose exported
\* issues have distinct titles and distinct creation times, so that neither
\* content deduplication nor a tie in the export order is involved.
C2_EdgesSurviveRoundTrip ==
    (/\ pc = "imported"
     /\ result.err = ""
     /\ \A i, j \in Exported(store) :
           i # j => /\ get_issue(store, i).title # get_issue(store, j).title
                    /\ get_issue(store, i).created_at # get_issue(store, j).created_at)
    => \A d \in store.dependencies :
          (d.issue_id \in Exported(store) /\ d.depends_on_id \in Exported(store))
          => d \in fresh.dependencies

\* C3: after a flush and an import into an empty store, every issue of the
\* fresh store has the content_hash held for the same id in the source
\* store, whatever create/update/close/reopen calls produced the source
C3_HashSurvivesRoundTrip ==
    pc = "imported" =>
        \A i \in DOMAIN fresh.issues :
            /\ i \in DOMAIN store.issues
            /\ get_issue(fresh, i).content_hash = get_issue(store, i).content_hash

\* C4: after a flush and an import into an empty store, every non-ephemeral
\* issue of the source is in the fresh store with the same title,
\* description and labels, and the tally is created = number of exported
\* issues, updated = 0, unchanged = 0
C4_StoreRebuildable ==
    pc = "imported" =>
        /\ \A i \in Exported(store) :
              /\ i \in DOMAIN fresh.issues
              /\ get_issue(fresh, i).title = get_issue(store, i).title
              /\ get_issue(fresh, i).description = get_issue(store, i).description
              /\ get_issue(fresh, i).labels = get_issue(store, i).labels
        /\ result.tally.created = Len(log)
        /\ result.tally.updated = 0
        /\ result.tally.unchanged = 0

\* C5: importing a log and then importing the same bytes again makes the
\* second call return created = 0, updated = 0, unchanged = number of issue
\* records of the log, skipped = 0, deleted = 0
C5_ImportIdempotent ==
    (imports = 2 /\ result.op = "import_jsonl") =>
        /\ result.err = ""
        /\ result.tally = [created |-> 0, updated |-> 0,
                           unchanged |-> Len(SelectLines(log, FALSE)),
                           skipped |-> 0, deleted |-> 0]

\* the fields the merge copies from the incoming record
MergedFields == {"title", "description", "design", "acceptance_criteria",
                 "notes", "status", "priority", "issue_type", "assignee"}

\* a step that is a call of import_jsonl on the working store
ImportStep == result'.op = "import_jsonl" /\ imports' = imports + 1 /\ log' = log

\* the log is one issue record whose id is stored, not as a tombstone, with
\* a different content
MergeCase ==
    /\ Len(log) = 1
    /\ ~log[1]._deleted
    /\ log[1].id \in DOMAIN store.issues
    /\ get_issue(store, log[1].id).status # "tombstone"
    /\ \E f \in MergedFields : get_issue(store, log[1].id)[f] # from_dict(log[1])[f]

\* C6: newer wins.  For a stored non-tombstone issue and an incoming record
\* with the same id and different content: if the incoming updated_at is
\* greater than the stored one the import completes, counts the record as
\* updated and the nine merged fields afterwards equal the incoming values;
\* otherwise the record is counted unchanged and the stored issue is not
\* modified
C6_NewerWins ==
    [][(ImportStep /\ MergeCase) =>
        LET incoming == from_dict(log[1])
            id == incoming.id
        IN IF Instant(incoming.updated_at) > Instant(get_issue(store, id).updated_at)
           THEN /\ result'.err = ""
                /\ result'.tally.updated = 1
                /\ \A f \in MergedFields : get_issue(store', id)[f] = incoming[f]
           ELSE /\ result'.tally.unchanged = 1
                /\ store'.issues[id] = store.issues[id]]_vars

\* the issues that are open, not ephemeral, not pinned, not deferred beyond
\* now, and have no blocking edge to a blocker whose status is in S
ReadyBy(st, S) ==
    {i \in DOMAIN st.issues :
        LET x == get_issue(st, i)
        IN /\ x.status = "open"
           /\ ~x.ephemeral
           /\ ~x.pinned
           /\ (x.defer_until = NoTime \/ Instant(x.defer_until) <= Instant(now_utc))
           /\ BlockersIn(st, i, S) = {}}

\* C7: get_ready_work() with no filter returns exactly the issues that are
\* open, neither ephemeral nor pinned, with defer_until null or not after
\* now, and with no blocking edge to an issue that is open, in_progress,
\* blocked, deferred or hooked
C7_ReadyWorkExact == get_ready_work(store) = ReadyBy(store, ActiveStatuses)

\* C8: every issue returned by get_ready_work() is open, non-ephemeral,
\* non-pinned, non-deferred and has no blocking edge to a blocker whose
\* status is anything other than closed
C8_ReadyWorkSafe ==
    get_ready_work(store) \subseteq ReadyBy(store, StatusValid \ {"closed"})

\* the issues with a status in S that have an unmet blocking edge, each
\* with the ids of its unresolved blockers
BlockedBy(st, S) ==
    {<<i, BlockersIn(st, i, ActiveStatuses)>> :
        i \in {j \in DOMAIN st.issues :
                  /\ get_issue(st, j).status \in S
                  /\ BlockersIn(st, j, ActiveStatuses) # {}}}

\* C9 (as stated): get_blocked_issues() returns exactly the issues with a
\* non-closed status that have at least one blocking edge to an unresolved
\* blocker, each with exactly the ids of its unresolved blockers
C9_BlockedNonClosed ==
    get_blocked_issues(store) = BlockedBy(store, StatusValid \ {"closed"})

\* C9 (amended): get_blocked_issues() returns exactly the issues whose
\* status is open, in_progress, blocked, deferred or hooked that have at
\* least one blocking edge to an unresolved blocker, each with exactly the
\* ids of its unresolved blockers
C9_BlockedActive ==
    get_blocked_issues(store) = BlockedBy(store, ActiveStatuses)

\* C9, the case: with edge b -> a (blocks) and a open the result is [(b, [a])]
C9_Witness ==
    /\ \E d \in store.dependencies :
          d.issue_id = "b" /\ d.depends_on_id = "a" /\ d.type = "blocks"
    /\ get_issue(store, "a").status = "open"
    /\ get_blocked_issues(store) = {<<"b", {"a"}>>}

\* a step that is a call add_dependency(a -> b) with a = b or a among the
\* ids reached from b by at most k existing edges
CyclicAdd(k) ==
    /\ result'.op = "add_dependency"
    /\ \/ result'.id = result'.dep
       \/ result'.id \in WithinHops(store.dependencies, {result'.dep}, k)

\* the call failed with the cycle error and left every table as it was
Rejected ==
    /\ result'.err = "ValueError"
    /\ store'.dependencies = store.dependencies
    /\ store'.events = store.events
    /\ store'.dirty_issues = store.dirty_issues
    /\ store' = store

\* C10 (as stated): add_dependency(a -> b) with a = b or a reachable from b
\* along existing edges fails with the cycle error and leaves the store
\* unchanged: no edge added, no event recorded, dirty set untouched
C10_CycleRejected ==
    [][CyclicAdd(Cardinality(store.dependencies)) => Rejected]_vars

\* C10 (amended): add_dependency(a -> b) with a = b or a reachable from b
\* along a path of at most 100 existing edges fails with the cycle error
\* and leaves the store unchanged
C10_CycleRejectedWithin100 ==
    [][CyclicAdd(100) => Rejected]_vars

\* C10, the case: an add_dependency(a -> b) was refused with the cycle
\* error where a is reached from b by two or more edges of the table
C10_Witness ==
    /\ result.op = "add_dependency"
    /\ result.err = "ValueError"
    /\ result.id \in WithinHops(store.dependencies, {result.dep}, 100)
    /\ result.id \notin WithinHops(store.dependencies, {result.dep}, 1)

\* the issues held in the store, as get_issue returns them
StoredIssues(st) == {get_issue(st, id) : id \in DOMAIN st.issues}

\* C11 as stated: every stored issue has status closed if and only if its
\* closed_at is set
C11_ClosedIffClosedAt ==
    \A i \in StoredIssues(store) : (i.status = CLOSED) <=> (i.closed_at # NoTime)

\* C11, amended: every stored closed issue has closed_at set, and every
\* stored issue with closed_at set is closed or a tombstone
C11_ClosedAtConsistent ==
    \A i \in StoredIssues(store) :
        /\ i.status = CLOSED => i.closed_at # NoTime
        /\ i.closed_at # NoTime => i.status \in {CLOSED, TOMBSTONE}

\* an issue was closed and reopened while another one is closed
C11_Witness ==
    /\ \E i \in StoredIssues(store) : i.status = CLOSED /\ i.closed_at # NoTime
    /\ \E i \in StoredIssues(store) : i.status = OPEN /\ i.closed_at = NoTime
    /\ \E k \in DOMAIN store.events : store.events[k].event_type = "reopened"

\* C12: Issue.validate() returns no error for every issue held in the store
C12_StoredIssuesValid ==
    \A i \in StoredIssues(store) : validate(i) = ""

\* the operations that are bd commands
Commands == {"bd create", "bd close", "bd list"}

\* C13: when a mutating command has changed the store, at its exit (on
\* every exit path) the dirty set is empty and the log holds the exported
\* state of the store
C13_FlushedAtExit ==
    (result.op \in Commands /\ result.changed) =>
        /\ store.dirty_issues = {}
        /\ \E order \in search_issues(store) : log = ExportLines(store, order)

\* a step that is one bd command (the clock does not advance within it)
CommandStep == result'.op \in Commands /\ clock' = clock

\* C14: a command imports at its start if and only if the log file exists
\* and its modification time exceeds the stored last_import_mtime (or none
\* is stored), and after the import last_import_mtime equals that time
C14_ImportIffNewer ==
    [][CommandStep =>
         /\ result'.imported <=>
                /\ disk.exists
                /\ \/ "last_import_mtime" \notin DOMAIN store.metadata
                   \/ store.metadata["last_import_mtime"][1] < disk.mtime
         /\ result'.imported =>
                /\ "last_import_mtime" \in DOMAIN store'.metadata
                /\ store'.metadata["last_import_mtime"][1] = disk.mtime]_vars

\* the complete logs there are: the log each process found when it began
\* its flush and the log each process set out to write
CompleteLogs == {flushers[p].before : p \in Procs} \cup {flushers[p].lines : p \in Procs}

\* C15: at every instant the log path holds a complete log, the previous
\* one or a new one, never a partially written file
C15_LogNeverTorn == log \in CompleteLogs

\* process p ends its flush_to_jsonl with an exception in this step
FlushFails(p) ==
    /\ flushers[p].pc # "idle" /\ flushers'[p].pc = "idle"
    /\ result'.id = p /\ result'.err # ""

\* C16: when flush_to_jsonl fails, the error reaches the caller, the
\* temporary file is gone, the log holds the complete log it held before
\* (or the one another process has completed since) and the dirty set is
\* unchanged
C16_FailedFlushHarmless ==
    [][\A p \in Procs :
          FlushFails(p) =>
              /\ ~disk'.tmp_exists
              /\ store'.dirty_issues = store.dirty_issues
              /\ log' \in {flushers[p].before}
                          \cup {flushers[q].lines : q \in Procs \ {p}}]_vars

\* the stored issues that are not ephemeral
NonEphemeral(st) == {id \in DOMAIN st.issues : st.issues[id].ephemeral = 0}

\* C17: after a successful flush_to_jsonl the dirty set is empty
C17_FlushClearsDirty ==
    result.op = "flush_to_jsonl" => get_dirty_issues(store) = {}

\* a flush has run on a store holding an ephemeral and a tombstoned issue
C17_Witness ==
    /\ result.op = "flush_to_jsonl"
    /\ \E id \in DOMAIN store.issues : store.issues[id].ephemeral = 1
    /\ \E id \in DOMAIN store.issues : store.issues[id].status = TOMBSTONE

C19_ChangedIssuesDirty ==
    [][/\ \A id \in DOMAIN store'.issues :
             (id \notin DOMAIN store.issues
                 \/ to_dict(get_issue(store', id)) # to_dict(get_issue(store, id)))
             => id \in store'.dirty_issues
       /\ (result'.op \in {"add_dependency", "remove_dependency"} /\ result'.err = "")
             => {result'.id, result'.dep} \subseteq store'.dirty_issues]_vars

\* C20: a store mutation that raises leaves no write behind: the store reads
\* after the failed call as it read before it (and so the commit of a later
\* mutation has nothing of the failed one to persist)
C20_FailedMutationRolledBack ==
    [][result'.err # "" => store' = store]_vars

\* C21: every successful next_child_number call returns one more than the
\* number handed out last for the parent (1 when none was), so that no two
\* calls for a parent return the same number, however the calls of two
\* processes interleave
C21_ChildNumbersDistinct ==
    [][(result'.op = "next_child_number" /\ result'.err = "")
          => result'.count =
                IF result'.id \in DOMAIN store.child_counters
                THEN store.child_counters[result'.id] + 1 ELSE 1]_vars

\* the stored IDs that begin with partial, character for character
LiteralPrefix(st, partial) ==
    {id \in DOMAIN st.issues :
        Len(partial) <= Len(id) /\ SubSeq(id, 1, Len(partial)) = partial}

\* C22: resolve_id(partial) returns partial when it is a stored ID, else the
\* only stored ID that has partial as a literal prefix, else null
C22_ResolveLiteralPrefix ==
    result.op = "resolve_id" =>
        result.value =
            IF result.id \in DOMAIN store.issues THEN result.id
            ELSE IF Cardinality(LiteralPrefix(store, result.id)) = 1
                 THEN CHOOSE id \in LiteralPrefix(store, result.id) : TRUE
            ELSE None

\* C23: bd create --parent under a resolved parent P ends with the depth
\* error, no counter and no issue written, exactly when the depth of P as
\* parse_hierarchical_id computes it is 3 or more
C23_DepthErrorIffDepth3 ==
    [][(result'.op = "bd create --parent" /\ result'.value # None) =>
          /\ (result'.err = "maximum hierarchy depth exceeded")
                <=> (parse_hierarchical_id(result'.value).depth >= 3)
          /\ result'.err = "maximum hierarchy depth exceeded" =>
                /\ store'.child_counters = store.child_counters
                /\ DOMAIN store'.issues = DOMAIN store.issues]_vars

\* the lines of the log that are issue records
RecordLines == {k \in DOMAIN log : log[k]._json = "object" /\ ~log[k]._deleted}

\* C24: a line that is no record never aborts an import: after import_jsonl
\* of a log that holds such lines, no exception has ended the call in
\* parse_jsonl and the issue of every record line of the log is stored
C24_MalformedLineSkipped ==
    (result.op = "import_jsonl" /\ \E k \in DOMAIN log : log[k]._json # "object")
        => /\ result.err # "AttributeError"
           /\ \A k \in RecordLines : log[k].id \in DOMAIN store.issues

\* C25: get_ready_work returns the ready issues by priority ascending and,
\* among equal priorities, oldest created_at first; a limit keeps the first
\* limit issues of that order
C25_ReadyWorkOrdered ==
    \A limit \in 0..NumIds : \A rows \in get_ready_work_rows(store, limit) :
        LET issue(i) == get_issue(store, i)
            before(a, b) ==
                \/ issue(a).priority < issue(b).priority
                \/ /\ issue(a).priority = issue(b).priority
                   /\ Instant(issue(a).created_at) <= Instant(issue(b).created_at)
        IN /\ \A i, j \in DOMAIN rows : i < j => before(rows[i], rows[j])
           /\ \A a \in get_ready_work(store) :
                 (\A k \in DOMAIN rows : rows[k] # a) =>
                     \A k \in DOMAIN rows : before(rows[k], a)

\* the fields of an issue that close_issue and reopen_issue are to leave alone
KeptFields ==
    DOMAIN Issue \ {"status", "closed_at", "close_reason", "updated_at", "content_hash"}

\* C26: close_issue(id, reason) on an existing issue leaves it closed, with
\* closed_at set and close_reason = reason; reopen_issue(id) leaves it open,
\* closed_at cleared and close_reason empty; either call keeps every other
\* field, so that after the reopen they are as they were before the close
C26_CloseThenReopen ==
    [][(result'.op \in {"close_issue", "reopen_issue"} /\ result'.err = "") =>
          LET old == get_issue(store, result'.id)
              new == get_issue(store', result'.id)
          IN /\ \A f \in KeptFields : new[f] = old[f]
             /\ result'.op = "close_issue" =>
                   /\ new.status = CLOSED /\ new.closed_at = now_utc
                   /\ new.close_reason = "done"
             /\ result'.op = "reopen_issue" =>
                   /\ new.status = OPEN /\ new.closed_at = NoTime
                   /\ new.close_reason = ""]_vars

\* an issue closed with a reason has been reopened
C26_Witness ==
    /\ result.op = "reopen_issue" /\ result.err = ""
    /\ get_issue(store, result.id).status = OPEN
    /\ \E k \in DOMAIN store.events :
          /\ store.events[k].issue_id = result.id
          /\ store.events[k].event_type = "closed"
          /\ store.events[k].comment = "done"

\* C27: after delete_issue(X) no dependency edge from or to X, no label, no
\* comment and no dirty entry of X remains; in every state both endpoints
\* of every edge and the owner of every label, comment and dirty entry are
\* existing issues
C27_NoOrphanRows ==
    LET owners == {d.issue_id : d \in store.dependencies}
                  \cup {d.depends_on_id : d \in store.dependencies}
                  \cup {l[1] : l \in store.labels}
                  \cup {store.comments[k].issue_id : k \in DOMAIN store.comments}
                  \cup store.dirty_issues
    IN /\ owners \subseteq DOMAIN store.issues
       /\ result.op = "delete_issue" =>
             result.id \notin owners \cup DOMAIN store.issues

\* an issue that had an edge, a label, a comment and a dirty entry has been
\* deleted while another issue is stored
C27_Witness ==
    /\ result.op = "delete_issue" /\ result.count >= 4
    /\ result.id \notin DOMAIN store.issues
    /\ store.issues # <<>>

\* C28: update_issue with a patch of the update command on an existing
\* issue succeeds, sets updated_at to the time of the call and stores the
\* content hash of the issue as it is after the patch
C28_UpdateSucceeds ==
    [][(result'.op = "update_issue" /\ result'.id \in DOMAIN store.issues) =>
          /\ result'.err = ""
          /\ get_issue(store', result'.id).updated_at = now_utc
          /\ store'.issues[result'.id].content_hash =
                compute_content_hash(get_issue(store', result'.id))]_vars

\* C29: a successful update_issue whose patch holds a status (every patch
\* of UpdateIssue does) appends exactly one event, a status_changed event
\* from the status before the patch to the patched status
C29_StatusChangedEvent ==
    [][(result'.op = "update_issue" /\ result'.err = "") =>
          store'.events =
              Append(store.events,
                     Event(result'.id, "status_changed",
                           get_issue(store, result'.id).status,
                           get_issue(store', result'.id).status, None))]_vars

\* C30: an import changes no issue that is in tombstone status in the
\* store: after import_jsonl every such issue is still stored, with every
\* field as it was, whatever the log holds
C30_TombstoneUntouched ==
    [][result'.op = "import_jsonl" =>
          \A id \in DOMAIN store.issues :
              get_issue(store, id).status = TOMBSTONE =>
                  /\ id \in DOMAIN store'.issues
                  /\ store'.issues[id] = store.issues[id]]_vars

\* the stored issues that hold the content hash of the one record of the log
HashHolders ==
    IF Len(log) # 1 \/ parse_jsonl(log).issues = <<>> THEN {}
    ELSE {id \in DOMAIN store.issues :
             store.issues[id].content_hash =
                 compute_content_hash(parse_jsonl(log).issues[1])}

BatchRecords == parse_jsonl(log).issues

\* the records of the batch that are not the first to carry their ID or
\* not the first to carry their content_hash
LaterRecords ==
    {i \in DOMAIN BatchRecords :
        \E j \in 1..(i - 1) :
            \/ BatchRecords[j].id = BatchRecords[i].id
            \/ compute_content_hash(BatchRecords[j]) =
                  compute_content_hash(BatchRecords[i])}

\* C32: in one import every record that is not the first of the batch to
\* carry its ID, or not the first to carry its content_hash, is counted
\* skipped, and an issue the import created or changed has the content of
\* the first record of the batch that carries its ID
C32_LaterRecordsSkipped ==
    [][(imports' = imports + 1 /\ result'.err = "") =>
          /\ result'.tally.skipped >= Cardinality(LaterRecords)
          /\ \A i \in LaterRecords :
                LET id == BatchRecords[i].id
                    first == CHOOSE j \in DOMAIN BatchRecords :
                                /\ BatchRecords[j].id = id
                                /\ \A k \in 1..(j - 1) : BatchRecords[k].id # id
                IN (/\ id \in DOMAIN store'.issues
                    /\ id \in DOMAIN AfterDeletions(store, log).issues =>
                          store'.issues[id] # store.issues[id]) =>
                      /\ get_issue(store', id).title = BatchRecords[first].title
                      /\ get_issue(store', id).status = BatchRecords[first].status]_vars

\* the IDs of the deletion markers of the log that are stored issues
MarkedIssues ==
    {parse_jsonl(log).deletion_ids[k] : k \in DOMAIN parse_jsonl(log).deletion_ids}
        \cap DOMAIN store.issues

\* C33: an import that ends normally counts as deleted the marker IDs that
\* were stored issues when it started, and a record of the same log for
\* such an ID (the first of the log with its ID and its content, whose
\* content no remaining issue holds) is inserted as a new issue, wherever
\* the marker stands in the log
C33_DeletionsFirst ==
    [][(imports' = imports + 1 /\ result'.err = "") =>
          /\ result'.tally.deleted = Cardinality(MarkedIssues)
          /\ \A i \in DOMAIN BatchRecords \ LaterRecords :
                LET r == BatchRecords[i]
                IN (/\ r.id \in MarkedIssues
                    /\ \A id \in DOMAIN store.issues \ MarkedIssues :
                          store.issues[id].content_hash # compute_content_hash(r)) =>
                      /\ r.id \in DOMAIN store'.issues
                      /\ get_issue(store', r.id).title = r.title
                      /\ get_issue(store', r.id).status = r.status
                      /\ get_issue(store', r.id).updated_at = r.updated_at
                      /\ SelectSeq(store'.events, LAMBDA e : e.issue_id = r.id) =
                            <<Event(r.id, "created", None, None, None)>>]_vars

\* an import has deleted a stored issue for a marker that stands in the
\* log after a record of the same ID, and inserted that record
C33_Witness ==
    /\ result.op = "import_jsonl" /\ result.err = ""
    /\ result.tally.deleted = 1 /\ result.tally.created = 1
    /\ Len(log) = 2
    /\ ~log[1]._deleted /\ log[2]._deleted /\ log[1].id = log[2].id
    /\ log[1].id \in DOMAIN store.issues

\* C34: an import that ends normally leaves every issue of its records
\* stored (create_issue succeeds though the target of an embedded
\* dependency is missing), and a dependency of a record whose issue and
\* whose target were both stored before the import (the same log imported
\* again) is an edge of the store afterwards
C34_EdgeRestoredOnReimport ==
    [][(imports' = imports + 1 /\ result'.err = "" /\ MarkedIssues = {}) =>
          \A i \in DOMAIN BatchRecords :
              \A k \in DOMAIN BatchRecords[i].dependencies :
                  LET d == BatchRecords[i].dependencies[k]
                  IN (/\ d.issue_id \in DOMAIN store.issues
                      /\ d.depends_on_id \in DOMAIN store.issues
                      /\ get_issue(store, d.issue_id).status # TOMBSTONE) =>
                        \E e \in store'.dependencies :
                            /\ e.issue_id = d.issue_id
                            /\ e.depends_on_id = d.depends_on_id]_vars

\* the first two issues of the chain and the last one
ChainEnds ==
    {ChainName[k] : k \in {1, 2, ChainSize(store)} \cap 1..ChainSize(store)}

\* C35: for an edge table of at most 100 edges (so that no path is longer
\* than the depth bound), has_cycle(a, b) is true exactly when a = b or a
\* is reached from b along edges of any type
C35_HasCycleIsReachability ==
    Cardinality(store.dependencies) <= CycleDepth =>
        \A b \in ChainEnds :
            \E below \in {Descendants(store.dependencies, b)} :
                \A a \in ChainEnds :
                    has_cycle(store, a, b) <=> (a = b \/ a \in below)

\* add_dependency was refused because has_cycle found the first issue of
\* the chain two or more edges below the last one, over edges that are
\* all informational
C35_Witness ==
    /\ result.op = "add_dependency" /\ result.err = "ValueError"
    /\ Cardinality(store.dependencies) <= CycleDepth
    /\ result.id # result.dep
    /\ has_cycle(store, result.id, result.dep)
    /\ ~has_cycle(store, result.dep, result.id)
    /\ result.id \notin OneHop(store.dependencies, {result.dep})
    /\ \A d \in store.dependencies : d.type = "related"

\* the lengths 6..13 at which the ID formed from the digest is not stored
FreeLengths(st, full_hash) ==
    {n \in 6..13 : make_issue_id("bd", full_hash, n) \notin DOMAIN st.issues}

\* C36: when bd create mints a hash ID and the ID of at least one of the
\* lengths 6..13 is free, the chosen ID is the one of the smallest free
\* length, so it is the ID of no stored issue and the issue is created
C36_SmallestFreeLength ==
    [][(result'.op = "bd create" /\ FreeLengths(store, result'.id) # {}) =>
          /\ \E n \in FreeLengths(store, result'.id) :
                /\ \A m \in FreeLengths(store, result'.id) : n <= m
                /\ result'.value = make_issue_id("bd", result'.id, n)
          /\ result'.value \notin DOMAIN store.issues
          /\ result'.err = ""
          /\ DOMAIN store'.issues = DOMAIN store.issues \cup {result'.value}]_vars

\* an ID of length 13 was minted and its issue created, the IDs of the
\* lengths 6..12 being taken
C36_Witness ==
    /\ result.op = "bd create" /\ result.err = ""
    /\ result.value = make_issue_id("bd", result.id, 13)
    /\ \A n \in 6..13 : make_issue_id("bd", result.id, n) \in DOMAIN store.issues

\* version k of a stored issue: retitled, with updated_at k ticks after the
\* stored updated_at
LaterVersion(st, id, k) ==
    [Issue EXCEPT !.id = id,
                  !.title = IF k = 1 THEN "V1" ELSE "V2",
                  !.assignee = "bob",
                  !.created_at = get_issue(st, id).created_at,
                  !.updated_at = [loc |-> get_issue(st, id).updated_at.loc + k,
                                  off |-> get_issue(st, id).updated_at.off]]

\* the store after import_jsonl of a log that holds the one record
ImportOne(st, record) ==
    import_jsonl(st, <<to_dict(record)>>, CHOOSE o \in search_issues(st) : TRUE).st

\* C37: for a stored issue and two later versions of it, the second later
\* than the first, importing the first and then the second, or the second
\* and then the first, ends with the title of the second version stored
C37_ImportOrderIndependent ==
    \A id \in DOMAIN store.issues :
        get_issue(store, id).status # TOMBSTONE =>
            \E v1 \in {LaterVersion(store, id, 1)} :
            \E v2 \in {LaterVersion(store, id, 2)} :
                /\ get_issue(ImportOne(ImportOne(store, v1), v2), id).title = "V2"
                /\ get_issue(ImportOne(ImportOne(store, v2), v1), id).title = "V2"

\* C38: import_jsonl of the log that flush_to_jsonl has just written from
\* the same store ends normally, creates, updates and deletes nothing and
\* leaves every issue, edge, label and comment as it was
C38_ReimportIsNoOp ==
    [][(result.op = "flush_to_jsonl" /\ imports' = imports + 1) =>
          /\ result'.err = ""
          /\ result'.tally.created = 0
          /\ result'.tally.updated = 0
          /\ result'.tally.deleted = 0
          /\ store'.issues = store.issues
          /\ store'.dependencies = store.dependencies
          /\ store'.labels = store.labels
          /\ store'.comments = store.comments]_vars

\* the own export of a store has been imported: the log is the export of
\* the one stored issue, whose stored content_hash differs from the hash
\* of its record (it was updated or closed), and the record was counted
\* unchanged
C38_Witness ==
    /\ result.op = "import_jsonl" /\ result.err = ""
    /\ Len(log) = 1 /\ HashHolders = {}
    /\ log[1].id \in DOMAIN store.issues
    /\ log = <<to_dict(get_issue(store, log[1].id))>>
    /\ result.tally = [ImportResult EXCEPT !.unchanged = 1]

\* C39: in every state the content_hash held for a stored issue is the
\* content hash of the issue as get_issue reads it back
C39_StoredHashCurrent ==
    \A id \in DOMAIN store.issues :
        store.issues[id].content_hash = compute_content_hash(get_issue(store, id))

\* C40: when bd create --parent P takes a child number n for P, P.n is not
\* the ID of an issue that is already stored
C40_ChildIdIsNew ==
    [][(/\ result'.op = "bd create --parent"
        /\ result'.value \in DOMAIN store'.child_counters
        /\ result'.value \in DOMAIN store.child_counters =>
               store'.child_counters[result'.value] #
                   store.child_counters[result'.value]) =>
          (result'.value \o "." \o ToString(store'.child_counters[result'.value]))
              \notin DOMAIN store.issues]_vars

====
